---- MODULE Spec2Model ----
(***************************************************************************)
(* Model of the side-channel analysis core of screaming_channels_ble:      *)
(* src/attack.py (leakage variables, classification, POI search, profile   *)
(* building, template / profiled-correlation attacks, recombination) and   *)
(* lib/dataset.py (Profile persistence).                                    *)
(*                                                                         *)
(* The module holds one state machine per pipeline stage.  Each stage has  *)
(* its own variables, its own initial predicate and next-state relation,   *)
(* and its own specification; the variables of the other stages stay at    *)
(* their idle value.                                                       *)
(*                                                                         *)
(* Arrays keep the 0-based indices of the source: an array of length n is  *)
(* a function with domain 0..n-1.                                          *)
(***************************************************************************)
EXTENDS Integers, Sequences, FiniteSets, TLC

VARIABLES
    \* ---- POI search (find_pois, tra_create)
    informative,    \* informative[bnum][i]: the informativeness curve of a key byte
    num_pois,       \* requested number of POIs
    k_fold,         \* the --k-fold option
    poi_spacing,    \* minimum spacing requested between two POIs
    POIS,           \* PROFILE.POIS[bnum][i] (tra_create: the POIs list of byte knum)
    poisPc,         \* "start" | "find_pois" | "tra_create"
    \* ---- leakage variables (compute_variables, classify)
    variable,       \* the model name given to compute_variables
    PLAINTEXTS,     \* PLAINTEXTS[j][bnum]
    KEYS,           \* KEYS[j][bnum]
    CIPHERTEXTS,    \* CIPHERTEXTS[j][bnum]
    VARIABLES_,     \* the global VARIABLES: VARIABLES[bnum][j], the label of trace j
    CLASSES,        \* the list of class labels, or None
    VARIABLE_FUNC,  \* the labeling lambda, named by the model that set it, or None
    FIXED_PLAINTEXT,\* the plaintext-only flag, or None
    SETS,           \* SETS[bnum][cla]: the traces (by index j) of class cla
    leakPc,         \* "start" | "computed" | "classified" | "raised"
    \* ---- scoring and ranking (run_attack, tra_attack)
    routine,        \* "run_attack" | "tra_attack"
    attack_algo,    \* "pdf" | "pcc"
    lenTraces,      \* len(TRACES)
    curByte,        \* the key byte being scored (bnum; knum in tra_attack)
    jTrace,         \* the index j of the next trace of the loop over TRACES
    P_k,            \* running total of log P_k of the byte being scored
    P_k_tmp,        \* the increments of the last trace (run_attack, pdf)
    p_kj,           \* the densities of the last trace, per hypothesis
    window,         \* tra_attack: ring buffer of the last best guesses
    LOG_PROBA,      \* LOG_PROBA[bnum][k]
    bestguess,      \* bestguess[bnum]
    pge,            \* pge[bnum]
    cparefs,        \* cparefs[bnum]: the hypotheses by descending score
    found,          \* what run_attack returned (retmore False), or None
    scorePc,        \* "scoring" | "ranked"
    \* ---- commands (attack, attack_recombined)
    command,        \* "attack" | "attack_recombined"
    comptype,       \* --comptype of attack_recombined
    FIXED_KEY,      \* whether the attack set uses a fixed key
    BRUTEFORCE,     \* the --bruteforce flag
    helInstalled,   \* whether python_hel can be imported
    complist,       \* the channels attack_recombined has still to score
    maxcpa,         \* attack_recombined: the score matrix of each channel
    trail,          \* the stages the run has passed, in order
    raised,         \* the exception that ended the command, or "None"
    cmdPc,          \* position in the command
    \* ---- profile persistence (fit, Profile.save, Profile.load)
    lr_type,        \* --lr-type of the profile command
    PROFILE,        \* the fields of the Profile the profile command builds
    disk,           \* the content of the .npy file of each field
    LOADED,         \* the fields of the Profile of the process that loads
    loadRaised,     \* the exception Profile.load ended with, or "None"
    profPc,         \* "built" | "fitted" | "saved" | "loaded" | "raised"
    \* ---- alignment (lib/analyze.py: align, get_shift_corr, shift)
    template,       \* the template signal
    target,         \* the target signal
    ignore,         \* align's ignore flag
    get_shift_only, \* align's get_shift_only flag
    shiftVal,       \* the shift align computed, or "None"
    aligned,        \* the array align returned, or <<>>
    alignPc,        \* "start" | "shift_returned" | "aligned" | "raised"
    \* ---- class statistics (estimate, build_profile)
    MEANS,          \* MEANS[bnum][cla], or "None"
    STDS,           \* STDS[bnum][cla], or "None"
    VARS,           \* VARS[bnum][cla], or "None"
    models,         \* fit: the regression row models[cla] of every class
    reduce_window,  \* reduce_traces: its window argument
    TRACES_REDUCED, \* TRACES_REDUCED[bnum][poi]: the samples of a trace it averages
    \* ---- the attack command from PROFILE.load() to the first score
    pois_algo,      \* the --pois-algo option
    reported,       \* whether "Error, there are only %d pois available" was printed
    setupRaised,    \* the exception that ended the command, or "None"
    setupPc,        \* "loaded" | "computed" | "searched" | "reduced" | "scoring" | "scored" | "aborted"
    \* ---- DatasetProcessing.process (lib/dataset.py)
    start,          \* self.start
    stop,           \* self.stop
    stop0,          \* self.stop when process() was called
    process_nb,     \* self.process_nb
    process_nb_bak, \* self._process_nb
    loop_i,         \* the loop index i of process()
    ps,             \* the processes of the batch: trace index and state
    batch_late,     \* whether the batch was initialised after a SIGINT
    q,              \* the items of the Queue of the batch, oldest first
    got,            \* the number of q.get() calls _get has completed
    bad_entries,    \* self.sset.bad_entries
    dirty_idx,      \* self.dset.dirty_idx
    processed,      \* processed[idx]: how often __process_fn ran on trace idx
    saved,          \* saved[idx]: the trace save_trace wrote for idx
    interrupted,    \* whether the SIGINT handler has run
    procRaised,     \* the exception __process_fn raised, or "None"
    procPc          \* "while" | "init" | "run" | "get" | "end" | "done" | "aborted" | "hung"

poisVars == <<informative, num_pois, k_fold, poi_spacing, POIS, poisPc>>

leakVars == <<variable, PLAINTEXTS, KEYS, CIPHERTEXTS, VARIABLES_, CLASSES,
              VARIABLE_FUNC, FIXED_PLAINTEXT, SETS, leakPc>>

scoreVars == <<routine, attack_algo, lenTraces, curByte, jTrace, P_k, P_k_tmp,
               p_kj, window, LOG_PROBA, bestguess, pge, cparefs, found, scorePc>>

cmdVars == <<command, comptype, FIXED_KEY, BRUTEFORCE, helInstalled, complist,
             maxcpa, trail, raised, cmdPc>>

profVars == <<lr_type, PROFILE, disk, LOADED, loadRaised, profPc>>

estVars == <<MEANS, STDS, VARS, models, reduce_window, TRACES_REDUCED>>

setupVars == <<pois_algo, reported, setupRaised, setupPc>>

procVars == <<start, stop, stop0, process_nb, process_nb_bak, loop_i, ps, batch_late, q,
              got, bad_entries, dirty_idx, processed, saved, interrupted, procRaised,
              procPc>>

alignVars == <<template, target, ignore, get_shift_only, shiftVal, aligned, alignPc>>

vars == <<poisVars, leakVars, scoreVars, cmdVars, profVars, alignVars, estVars, setupVars, procVars>>

\* What an action of one stage leaves alone.
notPois == <<leakVars, scoreVars, cmdVars, profVars, alignVars, estVars, setupVars, procVars>>
notLeak == <<poisVars, scoreVars, cmdVars, profVars, alignVars, estVars, setupVars, procVars>>
notScore == <<poisVars, leakVars, cmdVars, profVars, alignVars, estVars, setupVars, procVars>>
notProf == <<poisVars, leakVars, scoreVars, cmdVars, alignVars, estVars, setupVars, procVars>>
notAlign == <<poisVars, leakVars, scoreVars, cmdVars, profVars, estVars, setupVars, procVars>>

----------------------------------------------------------------------------
(* Bounds of the model.                                                    *)

\* Number of key bytes handled (NUM_KEY_BYTES is a command-line option).
NUM_KEY_BYTES == 2
\* Number of samples of a trace, len(TRACES[0]).
TraceLen == 4
\* Largest number of POIs requested.
MaxPois == 3
\* Largest poi_spacing requested.
MaxSpacing == 2
\* Largest value of an informativeness curve; the smallest is -1.
MaxCurve == 1
\* Largest number of traces of a data set, len(TRACES).
MaxTraces == 2
\* Number of key hypotheses scored per key byte: the values 0..NumHyp-1 of a
\* byte (256 in the source).
NumHyp == 2
\* Largest value held by an array of a profile; the smallest is 0.
MaxContent == 1
\* Largest number of samples of a signal given to align.
MaxSigLen == 4
\* Largest --k-fold.
MaxFold == 2
\* Largest --window of reduce_traces.
MaxWindow == 2
\* Largest number of traces of the subset being processed.
MaxTraceCount == 4
\* Largest number of worker processes.
MaxWorkers == 2

KeyBytes == 0 .. NUM_KEY_BYTES - 1
Samples == 0 .. TraceLen - 1

----------------------------------------------------------------------------
(* Python / numpy helpers.                                                 *)

Max2(a, b) == IF a >= b THEN a ELSE b
Min2(a, b) == IF a <= b THEN a ELSE b

\* len() of an array.
ArrLen(a) == Cardinality(DOMAIN a)

\* A float64: a finite number (an integer here), NaN, or an infinity.
Fin(n) == [k |-> "fin", v |-> n]
NaN == [k |-> "nan", v |-> 0]
NegInf == [k |-> "-inf", v |-> 0]
PosInf == [k |-> "inf", v |-> 0]

IsFinite(x) == x.k = "fin"

\* The order numpy's sort and arg-max follow: NaN counts as the largest.
FLe(a, b) ==
    CASE b.k = "nan" -> TRUE
      [] a.k = "nan" -> FALSE
      [] a.k = "-inf" -> TRUE
      [] b.k = "-inf" -> FALSE
      [] b.k = "inf" -> TRUE
      [] a.k = "inf" -> FALSE
      [] OTHER -> a.v <= b.v

FLt(a, b) == FLe(a, b) /\ ~FLe(b, a)

\* a + b on float64.
FAdd(a, b) ==
    CASE a.k = "nan" \/ b.k = "nan" -> NaN
      [] a.k = "inf" -> IF b.k = "-inf" THEN NaN ELSE PosInf
      [] a.k = "-inf" -> IF b.k = "inf" THEN NaN ELSE NegInf
      [] b.k \in {"inf", "-inf"} -> b
      [] OTHER -> Fin(a.v + b.v)

\* np.argmax: the index of the first occurrence of the maximum (of the
\* first NaN when there is one).
ArgMax(a) ==
    CHOOSE i \in DOMAIN a :
        /\ \A j \in DOMAIN a : FLe(a[j], a[i])
        /\ \A j \in DOMAIN a : j < i => FLt(a[j], a[i])

----------------------------------------------------------------------------
(* POI search: iterative arg-max and suppress.                             *)

\* for j in range(pmin, pmax): temp[j] = 0
Suppress(temp, poi, spacing) ==
    LET pmin == Max2(0, poi - spacing)
        pmax == Min2(poi + spacing, ArrLen(temp))
    IN  [j \in DOMAIN temp |-> IF pmin <= j /\ j < pmax THEN Fin(0) ELSE temp[j]]

\* The loop "for i in range(num_pois)" of find_pois for one key byte, from
\* iteration i on; pois holds the POIs recorded so far.
RECURSIVE PoiLoop(_, _, _, _, _)
PoiLoop(temp, i, n, spacing, pois) ==
    IF i >= n THEN pois
    ELSE LET poi == ArgMax(temp)
         IN  PoiLoop(Suppress(temp, poi, spacing), i + 1, n, spacing,
                     [pois EXCEPT ![i] = poi])

\* find_pois, lines 479 and 516-525: PROFILE.POIS of shape
\* (NUM_KEY_BYTES, num_pois), zero-initialised, filled byte by byte from a
\* copy of the curve.
FindPoisLoop(inf, n, spacing) ==
    [bnum \in KeyBytes |->
        PoiLoop(inf[bnum], 0, n, spacing, [i \in 0 .. n - 1 |-> 0])]

\* tra_create, lines 1352-1363: the same selection on the SOAD curve
\* tempSumDiff of key byte knum, POIs appended to a list.
RECURSIVE TraPoiLoop(_, _, _, _, _)
TraPoiLoop(tempSumDiff, i, n, spacing, pois) ==
    IF i >= n THEN pois
    ELSE LET nextPOI == ArgMax(tempSumDiff)
             poiMin == Max2(0, nextPOI - spacing)
             poiMax == Min2(nextPOI + spacing, ArrLen(tempSumDiff))
         IN  TraPoiLoop([j \in DOMAIN tempSumDiff |->
                            IF poiMin <= j /\ j < poiMax THEN Fin(0)
                            ELSE tempSumDiff[j]],
                        i + 1, n, spacing,
                        [k \in 0 .. i |-> IF k = i THEN nextPOI ELSE pois[k]])

Curves == [Samples -> {Fin(n) : n \in -1 .. MaxCurve}]
\* SOAD is a sum of absolute values: never negative.
SoadCurves == [Samples -> {Fin(n) : n \in 0 .. MaxCurve}]

PoisIdle ==
    /\ informative = <<>>
    /\ num_pois = 0
    /\ k_fold = 0
    /\ poi_spacing = 0
    /\ POIS = <<>>
    /\ poisPc = "idle"

PoisInit ==
    /\ informative \in [KeyBytes -> Curves]
    /\ num_pois \in 1 .. MaxPois
    /\ k_fold \in 1 .. MaxFold
    /\ poi_spacing \in 1 .. MaxSpacing
    /\ POIS = <<>>
    /\ poisPc = "start"

\* find_pois(pois_algo, k_fold, num_pois, poi_spacing): the POI loop.
FindPois ==
    /\ poisPc = "start"
    /\ POIS' = FindPoisLoop(informative, num_pois, poi_spacing)
    /\ poisPc' = "find_pois"
    /\ UNCHANGED <<informative, num_pois, k_fold, poi_spacing>>
    /\ UNCHANGED notPois

\* tra_create(template_dir, num_pois, poi_spacing): the POI loop of every
\* key byte.
TraCreate ==
    /\ poisPc = "start"
    /\ \A knum \in KeyBytes : informative[knum] \in SoadCurves
    /\ POIS' = [knum \in KeyBytes |->
                    TraPoiLoop(informative[knum], 0, num_pois, poi_spacing, <<>>)]
    /\ poisPc' = "tra_create"
    /\ UNCHANGED <<informative, num_pois, k_fold, poi_spacing>>
    /\ UNCHANGED notPois

\* attack and attack_recombined with pois_algo set: the call
\* find_pois(pois_algo, num_pois, k_fold, poi_spacing) binds the parameter
\* k_fold to num_pois and the parameter num_pois to k_fold.
AttackFindPois ==
    /\ poisPc = "start"
    /\ POIS' = FindPoisLoop(informative, k_fold, poi_spacing)
    /\ poisPc' = "attack_find_pois"
    /\ UNCHANGED <<informative, num_pois, k_fold, poi_spacing>>
    /\ UNCHANGED notPois

PoisNext == FindPois \/ TraCreate \/ AttackFindPois

----------------------------------------------------------------------------
(* Leakage variables: compute_variables and classify.                      *)

Byte == 0 .. 255

\* Python's p ^ k on bytes.
RECURSIVE BitXor(_, _, _)
BitXor(a, b, n) ==
    IF n = 0 THEN 0
    ELSE (((a % 2) + (b % 2)) % 2) + 2 * BitXor(a \div 2, b \div 2, n - 1)

XorTab == [a \in Byte |-> [b \in Byte |-> BitXor(a, b, 8)]]

Xor(a, b) == XorTab[a][b]

\* bin(n).count("1")
RECURSIVE PopCount(_)
PopCount(n) == IF n = 0 THEN 0 ELSE (n % 2) + PopCount(n \div 2)

\* hw = [bin(n).count("1") for n in range(256)]
hw == [n \in Byte |-> PopCount(n)]

\* The AES S-box table, a tuple indexed from 0 in the source.
sboxTuple == <<
    99, 124, 119, 123, 242, 107, 111, 197, 48, 1, 103, 43, 254, 215, 171, 118,
    202, 130, 201, 125, 250, 89, 71, 240, 173, 212, 162, 175, 156, 164, 114, 192,
    183, 253, 147, 38, 54, 63, 247, 204, 52, 165, 229, 241, 113, 216, 49, 21,
    4, 199, 35, 195, 24, 150, 5, 154, 7, 18, 128, 226, 235, 39, 178, 117,
    9, 131, 44, 26, 27, 110, 90, 160, 82, 59, 214, 179, 41, 227, 47, 132,
    83, 209, 0, 237, 32, 252, 177, 91, 106, 203, 190, 57, 74, 76, 88, 207,
    208, 239, 170, 251, 67, 77, 51, 133, 69, 249, 2, 127, 80, 60, 159, 168,
    81, 163, 64, 143, 146, 157, 56, 245, 188, 182, 218, 33, 16, 255, 243, 210,
    205, 12, 19, 236, 95, 151, 68, 23, 196, 167, 126, 61, 100, 93, 25, 115,
    96, 129, 79, 220, 34, 42, 144, 136, 70, 238, 184, 20, 222, 94, 11, 219,
    224, 50, 58, 10, 73, 6, 36, 92, 194, 211, 172, 98, 145, 149, 228, 121,
    231, 200, 55, 109, 141, 213, 78, 169, 108, 86, 244, 234, 101, 122, 174, 8,
    186, 120, 37, 46, 28, 166, 180, 198, 232, 221, 116, 31, 75, 189, 139, 138,
    112, 62, 181, 102, 72, 3, 246, 14, 97, 53, 87, 185, 134, 193, 29, 158,
    225, 248, 152, 17, 105, 217, 142, 148, 155, 30, 135, 233, 206, 85, 40, 223,
    140, 161, 137, 13, 191, 230, 66, 104, 65, 153, 45, 15, 176, 84, 187, 22
>>

sbox == [x \in Byte |-> sboxTuple[x + 1]]

\* The names compute_variables accepts.
Catalog == {"hw_sbox_out", "hw_p_xor_k", "sbox_out", "p_xor_k", "p", "hw_p",
            "hw_k", "k", "hd", "fixed_vs_fixed", "c", "hw_c"}

\* The models whose branch sets VARIABLE_FUNC ("c" and "hw_c" do not).
WithFunc == Catalog \ {"c", "hw_c"}

\* (mutant) the Hamming distance without its offset
HdFuncNoOffset(p, k) == hw[Xor(Xor(p, k), sbox[Xor(p, k)])]

\* lambda p, k : hw[(p ^ k) ^ sbox[p ^ k]] - 1
HdFunc(p, k) == hw[Xor(Xor(p, k), sbox[Xor(p, k)])] - 1

\* lambda p, k: 1 if p ^ k == 48 else 0
FixedVsFixedFunc(p, k) == IF Xor(p, k) = 48 THEN 1 ELSE 0

\* VARIABLE_FUNC(p, k) for the lambda set by the branch of model f.
LeakFunc(f, p, k) ==
    CASE f = "hw_sbox_out" -> hw[sbox[Xor(p, k)]]
      [] f = "hw_p_xor_k" -> hw[Xor(p, k)]
      [] f = "sbox_out" -> sbox[Xor(p, k)]
      [] f = "p_xor_k" -> Xor(p, k)
      [] f = "p" -> p
      [] f = "hw_p" -> hw[p]
      [] f = "hw_k" -> hw[k]
      [] f = "k" -> k
      [] f = "hd" -> HdFunc(p, k)
      [] f = "fixed_vs_fixed" -> FixedVsFixedFunc(p, k)

\* CLASSES = list(range(0, n)) of the branch of model v.
ClassesOf(v) ==
    CASE v \in {"hw_sbox_out", "hw_p_xor_k", "hw_p", "hw_k", "hw_c"} -> 0 .. 8
      [] v \in {"sbox_out", "p_xor_k", "p", "k", "c"} -> 0 .. 255
      [] v = "hd" -> 0 .. 6
      [] v = "fixed_vs_fixed" -> 0 .. 1

\* The label of trace j for key byte bnum, lines 302-310.
LabelOf(v, func, bnum, j) ==
    CASE v = "c" -> CIPHERTEXTS[j][bnum]
      [] v = "hw_c" -> hw[CIPHERTEXTS[j][bnum]]
      [] OTHER -> LeakFunc(func, PLAINTEXTS[j][bnum], KEYS[j][bnum])

TraceIdx == DOMAIN PLAINTEXTS

LeakIdle ==
    /\ variable = "None"
    /\ PLAINTEXTS = <<>>
    /\ KEYS = <<>>
    /\ CIPHERTEXTS = <<>>
    /\ VARIABLES_ = "None"
    /\ CLASSES = "None"
    /\ VARIABLE_FUNC = "None"
    /\ FIXED_PLAINTEXT = "None"
    /\ SETS = "None"
    /\ leakPc = "idle"

\* The assignments of compute_variables(variable) for a model of the
\* catalog.
ComputeVariablesBody ==
    /\ LET func == IF variable \in WithFunc THEN variable ELSE VARIABLE_FUNC
       IN  /\ VARIABLE_FUNC' = func
           /\ VARIABLES_' = [bnum \in KeyBytes |->
                               [j \in TraceIdx |-> LabelOf(variable, func, bnum, j)]]
    /\ CLASSES' = ClassesOf(variable)
    /\ FIXED_PLAINTEXT' = (variable \in {"p", "hw_p"})

\* compute_variables(variable) for a model of the catalog.
ComputeVariables ==
    /\ leakPc = "start"
    /\ variable \in Catalog
    /\ ComputeVariablesBody
    /\ leakPc' = "computed"
    /\ UNCHANGED <<variable, PLAINTEXTS, KEYS, CIPHERTEXTS, SETS>>
    /\ UNCHANGED notLeak

\* (mutant) a name outside the catalog is taken as "hw_sbox_out"
ComputeVariablesDefault ==
    /\ leakPc = "start"
    /\ variable \notin Catalog
    /\ VARIABLE_FUNC' = "hw_sbox_out"
    /\ VARIABLES_' = [bnum \in KeyBytes |->
                        [j \in TraceIdx |-> LabelOf("hw_sbox_out", "hw_sbox_out", bnum, j)]]
    /\ CLASSES' = ClassesOf("hw_sbox_out")
    /\ FIXED_PLAINTEXT' = FALSE
    /\ leakPc' = "computed"
    /\ UNCHANGED <<variable, PLAINTEXTS, KEYS, CIPHERTEXTS, SETS>>
    /\ UNCHANGED notLeak

\* compute_variables(variable) for any other name: VARIABLES and
\* FIXED_PLAINTEXT are reset (lines 258-259), then the else branch raises.
ComputeVariablesRaise ==
    /\ leakPc = "start"
    /\ variable \notin Catalog
    /\ VARIABLES_' = [bnum \in KeyBytes |-> [j \in TraceIdx |-> 0]]
    /\ FIXED_PLAINTEXT' = FALSE
    /\ leakPc' = "raised"
    /\ UNCHANGED <<variable, PLAINTEXTS, KEYS, CIPHERTEXTS, CLASSES,
                   VARIABLE_FUNC, SETS>>
    /\ UNCHANGED notLeak

\* SETS[bnum][cla].append(trace) with Python's indexing: a negative label
\* counts from the end of the list.
PyIndex(i, n) == IF i < 0 THEN i + n ELSE i

\* The traces zip(VARIABLES[bnum], TRACES) appends to the list of class cla,
\* in the order of the traces.
RECURSIVE Bucket(_, _, _, _)
Bucket(labels, cla, n, j) ==
    IF j \notin DOMAIN labels THEN <<>>
    ELSE (IF PyIndex(labels[j], n) = cla THEN <<j>> ELSE <<>>)
         \o Bucket(labels, cla, n, j + 1)

\* (mutant) every key byte bucketed by the labels of byte 0
ClassifyByteFirst(labels, bnum, classes) ==
    [cla \in classes |-> Bucket(labels[0], cla, Cardinality(classes), 0)]

\* The body of classify's loop for key byte bnum.
ClassifyByte(labels, bnum, classes) ==
    [cla \in classes |-> Bucket(labels[bnum], cla, Cardinality(classes), 0)]

\* classify(); a label that is no index of the list raises IndexError.
Classify ==
    /\ leakPc = "computed"
    /\ \A bnum \in KeyBytes : \A j \in TraceIdx :
           PyIndex(VARIABLES_[bnum][j], Cardinality(CLASSES)) \in CLASSES
    /\ SETS' = [bnum \in KeyBytes |-> ClassifyByte(VARIABLES_, bnum, CLASSES)]
    /\ leakPc' = "classified"
    /\ UNCHANGED <<variable, PLAINTEXTS, KEYS, CIPHERTEXTS, VARIABLES_, CLASSES,
                   VARIABLE_FUNC, FIXED_PLAINTEXT>>
    /\ UNCHANGED notLeak

\* The (plaintext byte, key byte, ciphertext byte) triples a trace of the
\* sampled data sets holds at one byte position.
SampleEntries == {<<48, 0, 4>>, <<255, 1, 200>>}

\* Names outside the catalog: a misspelling, another case, the empty string.
UnknownNames == {"hw_sbox_in", "HW_SBOX_OUT", ""}

\* Data sets of 1..MaxTraces traces over the sampled triples.
LeakInit ==
    /\ variable \in Catalog \cup UnknownNames
    /\ \E n \in 1 .. MaxTraces :
         \E d \in [0 .. n - 1 -> [KeyBytes -> SampleEntries]] :
            /\ PLAINTEXTS = [j \in 0 .. n - 1 |-> [b \in KeyBytes |-> d[j][b][1]]]
            /\ KEYS = [j \in 0 .. n - 1 |-> [b \in KeyBytes |-> d[j][b][2]]]
            /\ CIPHERTEXTS = [j \in 0 .. n - 1 |-> [b \in KeyBytes |-> d[j][b][3]]]
    /\ VARIABLES_ = "None"
    /\ CLASSES = "None"
    /\ VARIABLE_FUNC = "None"
    /\ FIXED_PLAINTEXT = "None"
    /\ SETS = "None"
    /\ leakPc = "start"

\* The (plaintext, key, ciphertext) bytes the labels of model v are computed
\* from: every pair (p, k) for a model with a labeling function, every
\* ciphertext byte for "c" and "hw_c".
InputsOf(v) ==
    IF v \in {"c", "hw_c"} THEN {<<0, 0, c>> : c \in Byte}
    ELSE {<<p, k, 0>> : p \in Byte, k \in Byte}

\* One trace whose bytes all hold the same plaintext, key and ciphertext
\* byte, over every byte value.
LabelInit ==
    /\ variable \in Catalog
    /\ \E t \in InputsOf(variable) :
         /\ PLAINTEXTS = [j \in {0} |-> [b \in KeyBytes |-> t[1]]]
         /\ KEYS = [j \in {0} |-> [b \in KeyBytes |-> t[2]]]
         /\ CIPHERTEXTS = [j \in {0} |-> [b \in KeyBytes |-> t[3]]]
    /\ VARIABLES_ = "None"
    /\ CLASSES = "None"
    /\ VARIABLE_FUNC = "None"
    /\ FIXED_PLAINTEXT = "None"
    /\ SETS = "None"
    /\ leakPc = "start"

LeakNext == ComputeVariables \/ ComputeVariablesRaise \/ Classify

----------------------------------------------------------------------------
(* Scoring and ranking: run_attack (pdf and pcc) and tra_attack.           *)

Hyp == 0 .. NumHyp - 1

\* The value rv.pdf(...) returns for one trace and one hypothesis: zero
\* (underflow), a negative number, NaN, or the positive number 2^v.
DZero == [k |-> "zero", v |-> 0]
DNeg == [k |-> "neg", v |-> 0]
DNaN == [k |-> "nan", v |-> 0]
DPos(e) == [k |-> "pos", v |-> e]

Densities == {DZero, DNeg, DNaN, DPos(-1)}

\* np.log, in units of ln 2: log(0) = -inf, log of a negative number or of
\* NaN is NaN.
NpLog(d) ==
    CASE d.k = "zero" -> NegInf
      [] d.k = "pos" -> Fin(d.v)
      [] OTHER -> NaN

\* The sum of correlation coefficients pearsonr yields for one hypothesis;
\* pearsonr of a constant input is NaN.
CorrSums == {Fin(-1), Fin(0), Fin(1), NaN}

Zeros == [k \in Hyp |-> Fin(0)]

\* A row of np.empty(): not yet written.
Unset == [k |-> "unset", v |-> 0]

\* The permutations of the indices of a.
Perms(a) ==
    {o \in [DOMAIN a -> DOMAIN a] : \A i, j \in DOMAIN a : i # j => o[i] # o[j]}

\* What a.argsort() may return: the indices in ascending order of value,
\* NaN last; the default sort is not stable, so equal values come in any
\* order.
Argsorts(a) ==
    {o \in Perms(a) : \A i, j \in DOMAIN a : i < j => FLe(a[o[i]], a[o[j]])}

\* order[::-1]
Reversed(o) == [i \in DOMAIN o |-> o[ArrLen(o) - 1 - i]]

\* list(l).index(x)
IndexOf(l, x) == CHOOSE i \in DOMAIN l : l[i] = x /\ \A j \in DOMAIN l : j < i => l[j] # x

\* P_k.argsort()[-1]
GuessOf(order) == order[NumHyp - 1]

\* list(P_k.argsort()[::-1]).index(truth)
RankOf(order, truth) == IndexOf(Reversed(order), truth)

\* The increment of one trace for one hypothesis, lines 801-805: a log that
\* equals -inf is skipped.
PdfIncrement(d) == IF NpLog(d) = NegInf THEN Fin(0) ELSE FAdd(Fin(0), NpLog(d))

\* The ground truth the rank of byte b is taken against in pdf mode, lines
\* 813-816.
PdfTruth(b) == IF FIXED_PLAINTEXT THEN PLAINTEXTS[0][b] ELSE KEYS[0][b]

\* known, lines 863-866.
Known == IF FIXED_PLAINTEXT THEN PLAINTEXTS[0] ELSE KEYS[0]

\* (bestguess == known).all()
AllEqual(g, known) == \A b \in DOMAIN g : g[b] = known[b]

WindowLen == 10

ScoreIdle ==
    /\ routine = "None"
    /\ attack_algo = "None"
    /\ lenTraces = 0
    /\ curByte = 0
    /\ jTrace = 0
    /\ P_k = <<>>
    /\ P_k_tmp = <<>>
    /\ p_kj = <<>>
    /\ window = <<>>
    /\ LOG_PROBA = "None"
    /\ bestguess = <<>>
    /\ pge = <<>>
    /\ cparefs = <<>>
    /\ found = "None"
    /\ scorePc = "idle"

\* The state run_attack or tra_attack starts from: the data set is loaded,
\* compute_variables has set FIXED_PLAINTEXT, the traces are reduced.
ScoreInit ==
    /\ routine \in {"run_attack", "tra_attack"}
    /\ attack_algo \in (IF routine = "run_attack" THEN {"pdf", "pcc"} ELSE {"None"})
    /\ FIXED_PLAINTEXT \in (IF routine = "run_attack" THEN BOOLEAN ELSE {FALSE})
    /\ lenTraces \in 1 .. MaxTraces
    /\ KEYS \in [{0} -> [KeyBytes -> Hyp]]
    /\ \E p \in {0, NumHyp - 1} : PLAINTEXTS = [j \in {0} |-> [b \in KeyBytes |-> p]]
    /\ CIPHERTEXTS = <<>>
    /\ variable = "None" /\ VARIABLES_ = "None" /\ CLASSES = "None"
    /\ VARIABLE_FUNC = "None" /\ SETS = "None" /\ leakPc = "idle"
    /\ curByte = 0
    /\ jTrace = 0
    /\ P_k = Zeros
    /\ P_k_tmp = Zeros
    /\ p_kj = <<>>
    /\ window = [i \in 0 .. WindowLen - 1 |-> -1]
    /\ LOG_PROBA = [b \in KeyBytes |-> [k \in Hyp |-> Unset]]
    /\ bestguess = [b \in KeyBytes |-> 0]
    /\ pge = [b \in KeyBytes |-> 256]
    /\ cparefs = [b \in KeyBytes |-> <<>>]
    /\ found = "None"
    /\ scorePc = "scoring"

\* What the return of run_attack leaves: found, or the end of the bytes.
NextByte(g) ==
    /\ curByte' = curByte + 1
    /\ jTrace' = 0
    /\ IF curByte + 1 = NUM_KEY_BYTES
       THEN /\ scorePc' = "ranked"
            /\ found' = IF routine = "run_attack" THEN AllEqual(g, Known) ELSE "None"
       ELSE /\ scorePc' = "scoring"
            /\ found' = found

\* run_attack, pdf, one iteration of "for j, trace in enumerate(TRACES)",
\* lines 783-807: the density of the trace under each of the hypotheses.
ScoreTracePdf ==
    /\ scorePc = "scoring" /\ routine = "run_attack" /\ attack_algo = "pdf"
    /\ jTrace < lenTraces
    /\ \E dens \in [Hyp -> Densities] :
         /\ p_kj' = dens
         /\ P_k_tmp' = [k \in Hyp |-> PdfIncrement(dens[k])]
         /\ P_k' = [k \in Hyp |-> FAdd(P_k[k], PdfIncrement(dens[k]))]
    /\ jTrace' = jTrace + 1
    /\ UNCHANGED <<routine, attack_algo, lenTraces, curByte, window, LOG_PROBA,
                   bestguess, pge, cparefs, found, scorePc>>
    /\ UNCHANGED notScore

\* run_attack, pdf, after the traces of byte curByte, lines 811-818.
RankBytePdf ==
    /\ scorePc = "scoring" /\ routine = "run_attack" /\ attack_algo = "pdf"
    /\ jTrace = lenTraces
    /\ LOG_PROBA' = [LOG_PROBA EXCEPT ![curByte] = P_k]
    /\ \E order \in Argsorts(P_k) :
         /\ bestguess' = [bestguess EXCEPT ![curByte] = GuessOf(order)]
         /\ pge' = [pge EXCEPT ![curByte] = RankOf(order, PdfTruth(curByte))]
         /\ cparefs' = [cparefs EXCEPT ![curByte] = Reversed(order)]
    /\ NextByte(bestguess')
    /\ P_k' = Zeros /\ P_k_tmp' = Zeros /\ p_kj' = <<>>
    /\ UNCHANGED <<routine, attack_algo, lenTraces, window>>
    /\ UNCHANGED notScore

\* run_attack, pcc, one iteration of the loop over the key bytes, lines
\* 830-858: the score of each hypothesis is a sum of correlation
\* coefficients.
ScoreBytePcc ==
    /\ scorePc = "scoring" /\ routine = "run_attack" /\ attack_algo = "pcc"
    /\ \E cpa \in [Hyp -> CorrSums] :
         /\ LOG_PROBA' = [LOG_PROBA EXCEPT ![curByte] = cpa]
         /\ bestguess' = [bestguess EXCEPT ![curByte] = ArgMax(cpa)]
         /\ \E order \in Argsorts(cpa) :
              /\ pge' = [pge EXCEPT ![curByte] = RankOf(order, KEYS[0][curByte])]
              /\ cparefs' = [cparefs EXCEPT ![curByte] = Reversed(order)]
    /\ NextByte(bestguess')
    /\ UNCHANGED <<routine, attack_algo, lenTraces, P_k, P_k_tmp, p_kj, window>>
    /\ UNCHANGED notScore

\* tra_attack: whether the loop over the traces breaks after trace j, line
\* 1458.
TraBreaks(win, j, guessed) ==
    \/ \A i \in DOMAIN win : win[i] = KEYS[0][curByte]
    \/ (j = lenTraces - 1 /\ guessed = KEYS[0][curByte])

\* tra_attack, one iteration of the loop over the traces, lines 1428-1461.
ScoreTraceTra ==
    /\ scorePc = "scoring" /\ routine = "tra_attack"
    /\ jTrace < lenTraces
    /\ \E dens \in [Hyp -> Densities] :
         /\ p_kj' = dens
         /\ P_k' = [k \in Hyp |-> FAdd(P_k[k], NpLog(dens[k]))]
    /\ \E order \in Argsorts(P_k') :
         LET guessed == GuessOf(order)
             win == [window EXCEPT ![jTrace % WindowLen] = guessed]
         IN  /\ window' = win
             /\ jTrace' = IF TraBreaks(win, jTrace, guessed) THEN lenTraces
                          ELSE jTrace + 1
    /\ UNCHANGED <<routine, attack_algo, lenTraces, curByte, P_k_tmp, LOG_PROBA,
                   bestguess, pge, cparefs, found, scorePc>>
    /\ UNCHANGED notScore

\* tra_attack, after the loop over the traces of byte knum, lines 1467-1469.
RankByteTra ==
    /\ scorePc = "scoring" /\ routine = "tra_attack"
    /\ jTrace = lenTraces
    /\ LOG_PROBA' = [LOG_PROBA EXCEPT ![curByte] = P_k]
    /\ \E order \in Argsorts(P_k) :
         /\ bestguess' = [bestguess EXCEPT ![curByte] = GuessOf(order)]
         /\ pge' = [pge EXCEPT ![curByte] = RankOf(order, KEYS[0][curByte])]
         /\ cparefs' = [cparefs EXCEPT ![curByte] = Reversed(order)]
    /\ NextByte(bestguess')
    /\ P_k' = Zeros /\ p_kj' = <<>>
    /\ window' = [i \in 0 .. WindowLen - 1 |-> -1]
    /\ UNCHANGED <<routine, attack_algo, lenTraces, P_k_tmp>>
    /\ UNCHANGED notScore

ScoreNext ==
    ScoreTracePdf \/ RankBytePdf \/ ScoreBytePcc \/ ScoreTraceTra \/ RankByteTra

----------------------------------------------------------------------------
(* The commands attack and attack_recombined, run with --pois-algo ""      *)
(* (the default: the POIs of the loaded profile are used).                 *)

\* The sum a call of run_attack ends with for one hypothesis.
ChannelSums == {Fin(0), Fin(1)}

ScoreMatrices == [KeyBytes -> [Hyp -> ChannelSums]]

\* complist, lines 1179-1184.
ComplistOf(c) == IF c = "RECOMBIN" THEN <<"AMPLITUDE", "PHASE_ROT">> ELSE <<c>>

\* compdefault, lines 1179-1184.
CompdefaultOf(c) == IF c = "RECOMBIN" THEN "AMPLITUDE" ELSE c

\* (mutant) the fused score is the score of the default channel
FusedDefaultOnly(m, ct, b, k) == m[CompdefaultOf(ct)][b][k]

\* maxcpa["RECOMBIN"][bnum][kguess], lines 1252-1255.
Fused(m, ct, b, k) ==
    IF ct = "RECOMBIN" THEN FAdd(m["AMPLITUDE"][b][k], m["PHASE_ROT"][b][k])
    ELSE m[CompdefaultOf(ct)][b][k]

cmdConfig == <<command, comptype, FIXED_KEY, BRUTEFORCE, helInstalled>>
leakData == <<variable, PLAINTEXTS, KEYS, CIPHERTEXTS>>
scoreLoop == <<routine, attack_algo, lenTraces, curByte, jTrace, P_k, P_k_tmp,
               p_kj, window, cparefs, scorePc>>

CmdIdle ==
    /\ command = "None"
    /\ comptype = "None"
    /\ FIXED_KEY = FALSE
    /\ BRUTEFORCE = FALSE
    /\ helInstalled = FALSE
    /\ complist = <<>>
    /\ maxcpa = <<>>
    /\ trail = <<>>
    /\ raised = "None"
    /\ cmdPc = "idle"

\* The state after the options are parsed and the attack set is loaded.
CmdInit ==
    /\ command \in {"attack", "attack_recombined"}
    /\ comptype \in (IF command = "attack" THEN {"None"}
                     ELSE {"AMPLITUDE", "PHASE_ROT", "RECOMBIN"})
    /\ FIXED_KEY \in BOOLEAN
    /\ BRUTEFORCE \in BOOLEAN
    /\ helInstalled \in BOOLEAN
    /\ complist = (IF command = "attack" THEN <<>> ELSE ComplistOf(comptype))
    /\ maxcpa = [c \in {"AMPLITUDE", "PHASE_ROT", "RECOMBIN"} |-> <<>>]
    /\ trail = <<>>
    /\ raised = "None"
    /\ cmdPc = "start"
    /\ variable \in {"hw_sbox_out", "hw_p"}
    /\ attack_algo \in {"pdf", "pcc"}
    /\ KEYS \in [{0} -> [KeyBytes -> Hyp]]
    /\ PLAINTEXTS = [j \in {0} |-> [b \in KeyBytes |-> 0]]
    /\ CIPHERTEXTS = [j \in {0} |-> [b \in KeyBytes |-> 0]]
    /\ VARIABLES_ = "None" /\ CLASSES = "None" /\ VARIABLE_FUNC = "None"
    /\ FIXED_PLAINTEXT = "None" /\ SETS = "None" /\ leakPc = "idle"
    /\ routine = "run_attack"
    /\ lenTraces = 1
    /\ curByte = 0 /\ jTrace = 0
    /\ P_k = <<>> /\ P_k_tmp = <<>> /\ p_kj = <<>> /\ window = <<>>
    /\ LOG_PROBA = "None"
    /\ bestguess = [b \in KeyBytes |-> 0]
    /\ pge = [b \in KeyBytes |-> 256]
    /\ cparefs = [b \in KeyBytes |-> <<>>]
    /\ found = "None"
    /\ scorePc = "idle"

\* attack, lines 1099-1100.
AttackCheckFixedKey ==
    /\ command = "attack" /\ cmdPc = "start"
    /\ IF ~FIXED_KEY /\ variable # "hw_p" /\ variable # "p"
       THEN raised' = "Exception" /\ cmdPc' = "aborted"
       ELSE raised' = raised /\ cmdPc' = "checked"
    /\ UNCHANGED <<cmdConfig, complist, maxcpa, trail>>
    /\ UNCHANGED <<poisVars, leakVars, scoreVars, profVars, alignVars, estVars, setupVars, procVars>>

\* compute_variables(variable), line 1121 of attack; line 1230 of
\* attack_recombined, for the next channel of complist.
CmdComputeVariables ==
    /\ <<command, cmdPc>> \in {<<"attack", "checked">>, <<"attack_recombined", "start">>}
    /\ command = "attack_recombined" => complist # <<>>
    /\ variable \in Catalog
    /\ ComputeVariablesBody
    /\ cmdPc' = "computed"
    /\ UNCHANGED <<cmdConfig, complist, maxcpa, trail, raised>>
    /\ UNCHANGED <<leakData, SETS, leakPc>>
    /\ UNCHANGED <<poisVars, scoreVars, profVars, alignVars, estVars, setupVars, procVars>>

\* reduce_traces(num_pois, window), lines 1131 and 1240.
CmdReduceTraces ==
    /\ cmdPc = "computed"
    /\ trail' = Append(trail, "ReducingTraces")
    /\ cmdPc' = "reduced"
    /\ UNCHANGED <<cmdConfig, complist, maxcpa, raised>>
    /\ UNCHANGED <<poisVars, leakVars, scoreVars, profVars, alignVars, estVars, setupVars, procVars>>

\* The call of run_attack, lines 1132 and 1241: the scores of every key
\* byte, the best guesses and the ranks, and what the call returns.  With
\* retmore the pdf branch returns maxcpa, a name it never binds.
CmdRunAttack ==
    /\ cmdPc = "reduced"
    /\ \E scores \in ScoreMatrices : \E orders \in [KeyBytes -> Perms(Zeros)] :
         /\ \A b \in KeyBytes : orders[b] \in Argsorts(scores[b])
         /\ LOG_PROBA' = scores
         /\ LET guess == [b \in KeyBytes |->
                            IF attack_algo = "pdf" THEN GuessOf(orders[b])
                            ELSE ArgMax(scores[b])]
                ranks == [b \in KeyBytes |->
                            RankOf(orders[b], IF attack_algo = "pdf" THEN PdfTruth(b)
                                              ELSE KEYS[0][b])]
            IN  IF command = "attack"
                THEN /\ bestguess' = guess
                     /\ pge' = ranks
                     /\ found' = AllEqual(guess, Known)
                     /\ cmdPc' = "scored"
                     /\ UNCHANGED <<maxcpa, complist, raised>>
                ELSE /\ UNCHANGED <<bestguess, pge, found>>
                     /\ IF attack_algo = "pdf"
                        THEN /\ raised' = "UnboundLocalError"
                             /\ cmdPc' = "aborted"
                             /\ UNCHANGED <<maxcpa, complist>>
                        ELSE /\ maxcpa' = [maxcpa EXCEPT ![Head(complist)] = scores]
                             /\ complist' = Tail(complist)
                             /\ cmdPc' = "start"
                             /\ raised' = raised
    /\ trail' = trail \o <<"Scoring", "Ranked">>
    /\ UNCHANGED cmdConfig
    /\ UNCHANGED scoreLoop
    /\ UNCHANGED <<poisVars, leakVars, profVars, alignVars, estVars, setupVars, procVars>>

\* attack_recombined, lines 1243-1260: the fused matrix, and the best guess
\* and rank of every key byte.
CmdRecombine ==
    /\ command = "attack_recombined" /\ cmdPc = "start" /\ complist = <<>>
    /\ LET fused == [b \in KeyBytes |-> [k \in Hyp |-> Fused(maxcpa, comptype, b, k)]]
       IN  /\ maxcpa' = [maxcpa EXCEPT !["RECOMBIN"] = fused]
           /\ LOG_PROBA' = fused
           /\ bestguess' = [b \in KeyBytes |-> ArgMax(fused[b])]
           /\ \E orders \in [KeyBytes -> Perms(Zeros)] :
                /\ \A b \in KeyBytes : orders[b] \in Argsorts(fused[b])
                /\ pge' = [b \in KeyBytes |-> RankOf(orders[b], KEYS[0][b])]
    /\ trail' = Append(trail, "Ranked")
    /\ cmdPc' = "scored"
    /\ UNCHANGED <<cmdConfig, complist, raised, found>>
    /\ UNCHANGED scoreLoop
    /\ UNCHANGED <<poisVars, leakVars, profVars, alignVars, estVars, setupVars, procVars>>

\* rank(), lines 1136 and 1266: key ranking by HEL when it is installed, a
\* logged error otherwise; neither changes the scores.
CmdRank ==
    /\ cmdPc = "scored"
    /\ cmdPc' = "ranked"
    /\ UNCHANGED <<cmdConfig, complist, maxcpa, trail, raised>>
    /\ UNCHANGED <<poisVars, leakVars, scoreVars, profVars, alignVars, estVars, setupVars, procVars>>

\* "if BRUTEFORCE and not found: bruteforce(BIT_BOUND_END)", lines 1138-1139
\* and 1268-1269.  attack_recombined never binds found; bruteforce() imports
\* python_hel unguarded.
CmdBruteforce ==
    /\ cmdPc = "ranked"
    /\ IF ~BRUTEFORCE
       THEN cmdPc' = "done" /\ UNCHANGED <<trail, raised>>
       ELSE IF command = "attack_recombined"
       THEN cmdPc' = "aborted" /\ raised' = "NameError" /\ trail' = trail
       ELSE IF found
       THEN cmdPc' = "done" /\ UNCHANGED <<trail, raised>>
       ELSE /\ trail' = Append(trail, "Bruteforced")
            /\ IF helInstalled
               THEN cmdPc' = "done" /\ raised' = raised
               ELSE cmdPc' = "aborted" /\ raised' = "ImportError"
    /\ UNCHANGED <<cmdConfig, complist, maxcpa>>
    /\ UNCHANGED <<poisVars, leakVars, scoreVars, profVars, alignVars, estVars, setupVars, procVars>>

CmdNext ==
    \/ AttackCheckFixedKey
    \/ CmdComputeVariables
    \/ CmdReduceTraces
    \/ CmdRunAttack
    \/ CmdRecombine
    \/ CmdRank
    \/ CmdBruteforce

----------------------------------------------------------------------------
(* Profile persistence: fit, Profile.save and Profile.load.                *)

Fields == {"POIS", "RS", "RZS", "MEANS", "STDS", "COVS", "MEAN_TRACE"}

\* The order Profile.load reads the files in, lines 694-700.
LoadOrder == <<"POIS", "RS", "RZS", "MEANS", "COVS", "STDS", "MEAN_TRACE">>

\* A numeric array, by its content.
NdArray(c) == [kind |-> "ndarray", data |-> c]

\* Python's None.
None == [kind |-> "None", data |-> 0]

\* np.asanyarray(None): a 0-d array of dtype object, stored as a pickle.
ObjectArray == [kind |-> "object", data |-> 0]

\* No file.
Absent == [kind |-> "absent", data |-> 0]

Arrays == {NdArray(c) : c \in 0 .. MaxContent}

\* What np.save(file, x) writes.
NpSave(x) == IF x = None THEN ObjectArray ELSE x

\* The position of the first file np.load refuses, allow_pickle being False
\* by default: a file that holds an object array; 8 when there is none.
FirstRefused(d) ==
    LET bad == {i \in 1 .. 7 : d[LoadOrder[i]].kind = "object"}
    IN  IF bad = {} THEN 8 ELSE CHOOSE i \in bad : \A j \in bad : i <= j

PositionOf(f) == CHOOSE i \in 1 .. 7 : LoadOrder[i] = f

ProfIdle ==
    /\ lr_type = "None"
    /\ PROFILE = <<>>
    /\ disk = <<>>
    /\ LOADED = <<>>
    /\ loadRaised = "None"
    /\ profPc = "idle"

\* The profile command after build_profile, line 1022: every field is a
\* numeric array.  The loading process starts from a fresh Profile.
ProfInit ==
    /\ lr_type \in {"None", "linear", "quadratic"}
    /\ PROFILE \in [Fields -> Arrays]
    /\ disk = [f \in Fields |-> Absent]
    /\ LOADED = [f \in Fields |-> None]
    /\ loadRaised = "None"
    /\ profPc = "built"

\* (mutant) a linear fit that keeps the empirical covariance
FitKeepCovs ==
    /\ profPc = "built"
    /\ IF lr_type = "None"
       THEN profPc' = "fitted" /\ PROFILE' = PROFILE
       ELSE IF lr_type = "linear"
       THEN /\ \E fitted \in Arrays : PROFILE' = [PROFILE EXCEPT !["MEANS"] = fitted]
            /\ profPc' = "fitted"
       ELSE profPc' = "raised" /\ PROFILE' = PROFILE
    /\ UNCHANGED <<lr_type, disk, LOADED, loadRaised>>
    /\ UNCHANGED notProf

\* fit(lr_type, variable), lines 669-752.
Fit ==
    /\ profPc = "built"
    /\ IF lr_type = "None"
       THEN profPc' = "fitted" /\ PROFILE' = PROFILE
       ELSE IF lr_type = "linear"
       THEN /\ \E fitted \in Arrays :
                 PROFILE' = [PROFILE EXCEPT !["MEANS"] = fitted, !["COVS"] = None]
            /\ profPc' = "fitted"
       ELSE profPc' = "raised" /\ PROFILE' = PROFILE
    /\ UNCHANGED <<lr_type, disk, LOADED, loadRaised>>
    /\ UNCHANGED notProf

\* PROFILE.save(), lines 676-690.
ProfileSave ==
    /\ profPc = "fitted"
    /\ disk' = [f \in Fields |-> NpSave(PROFILE[f])]
    /\ profPc' = "saved"
    /\ UNCHANGED <<lr_type, PROFILE, LOADED, loadRaised>>
    /\ UNCHANGED notProf

\* PROFILE.load(), lines 693-700, in the process that attacks: the fields
\* are assigned in order until np.load raises.
ProfileLoad ==
    /\ profPc = "saved"
    /\ LET refused == FirstRefused(disk)
       IN  /\ LOADED' = [f \in Fields |->
                            IF PositionOf(f) < refused THEN disk[f] ELSE LOADED[f]]
           /\ loadRaised' = IF refused = 8 THEN "None" ELSE "ValueError"
    /\ profPc' = "loaded"
    /\ UNCHANGED <<lr_type, PROFILE, disk>>
    /\ UNCHANGED notProf

ProfNext == Fit \/ ProfileSave \/ ProfileLoad

----------------------------------------------------------------------------
(* Alignment: align, get_shift_corr and shift of lib/analyze.py, on real   *)
(* (not complex64) signals, with normalize left at its default False.      *)

\* The values of a sample.
Amps == {-1, 0, 1}

\* The signals of n samples.
Signals(n) == [0 .. n - 1 -> Amps]

\* complex.get_amplitude: a signal that is not complex64 is returned as is.
GetAmplitude(sig) == sig

\* filters.butter_lowpass_filter: a causal low-pass filter, here the sum of
\* a sample and the one before it.
ButterLowpass(sig) ==
    [n \in DOMAIN sig |-> sig[n] + (IF n = 0 THEN 0 ELSE sig[n - 1])]

\* One entry of signal.correlate(arr_1, arr_2), mode "full": the sum over l
\* of arr_1[l] * arr_2[l - k + len(arr_2) - 1], from index l on.
RECURSIVE CorrAt(_, _, _, _)
CorrAt(arr_1, arr_2, k, l) ==
    IF l >= ArrLen(arr_1) THEN 0
    ELSE LET m == l - k + ArrLen(arr_2) - 1
         IN  (IF m >= 0 /\ m < ArrLen(arr_2) THEN arr_1[l] * arr_2[m] ELSE 0)
             + CorrAt(arr_1, arr_2, k, l + 1)

\* signal.correlate(arr_1, arr_2)
Correlate(arr_1, arr_2) ==
    [k \in 0 .. ArrLen(arr_1) + ArrLen(arr_2) - 2 |-> Fin(CorrAt(arr_1, arr_2, k, 0))]

\* (mutant) the arg-max of the correlation taken as the shift
GetShiftCorrNoOffset(arr_1, arr_2) == ArgMax(Correlate(arr_1, arr_2))

\* get_shift_corr(arr_1, arr_2)
get_shift_corr(arr_1, arr_2) == ArgMax(Correlate(arr_1, arr_2)) - (ArrLen(arr_2) - 1)

\* shift(sig, shift): sig[shift:] followed by shift zeros, or -shift zeros
\* followed by sig[:shift]; a slice past the end of sig is empty.
shift(sig, s) ==
    LET n == ArrLen(sig)
    IN  IF s > 0
        THEN LET kept == Max2(n - s, 0)
             IN  [i \in 0 .. kept + s - 1 |-> IF i < kept THEN sig[i + s] ELSE 0]
        ELSE IF s < 0
        THEN LET kept == Max2(n + s, 0)
             IN  [i \in 0 .. kept - s - 1 |-> IF i < -s THEN 0 ELSE sig[i + s]]
        ELSE sig

Abs(x) == IF x < 0 THEN -x ELSE x

AlignIdle ==
    /\ template = <<>>
    /\ target = <<>>
    /\ ignore = TRUE
    /\ get_shift_only = FALSE
    /\ shiftVal = "None"
    /\ aligned = <<>>
    /\ alignPc = "idle"

AlignInit ==
    /\ \E n \in 1 .. MaxSigLen : template \in Signals(n)
    /\ \E n \in 1 .. MaxSigLen : target \in Signals(n)
    /\ ignore \in BOOLEAN
    /\ get_shift_only \in BOOLEAN
    /\ shiftVal = "None"
    /\ aligned = <<>>
    /\ alignPc = "start"

\* align(template, target, sr, ignore, get_shift_only=...), lines 397-435.
\* len(template/10) is the length of the template.
Align ==
    /\ alignPc = "start"
    /\ IF ~(ArrLen(template) > 1 /\ ArrLen(target) > 1)
       THEN alignPc' = "raised" /\ UNCHANGED <<shiftVal, aligned>>
       ELSE LET template_lpf == ButterLowpass(GetAmplitude(template))
                target_lpf == ButterLowpass(GetAmplitude(target))
                s == get_shift_corr(target_lpf, template_lpf)
            IN  /\ shiftVal' = s
                /\ IF get_shift_only
                   THEN alignPc' = "shift_returned" /\ aligned' = aligned
                   ELSE IF ~ignore /\ ~(Abs(s) < ArrLen(template))
                   THEN alignPc' = "raised" /\ aligned' = aligned
                   ELSE alignPc' = "aligned" /\ aligned' = shift(target, s)
    /\ UNCHANGED <<template, target, ignore, get_shift_only>>
    /\ UNCHANGED notAlign

AlignNext == Align

----------------------------------------------------------------------------
(* Class statistics: estimate and build_profile of the profile command.    *)
(* The traces are finite; a statistic is tracked as finite or NaN.         *)

EstIdle ==
    /\ MEANS = "None" /\ STDS = "None" /\ VARS = "None" /\ models = <<>>
    /\ reduce_window = 0 /\ TRACES_REDUCED = <<>>

\* np.average, np.var and np.std over axis 0 of the traces of a class: NaN
\* for a class without traces, a finite value otherwise.
NpAverage(set) == IF Len(set) = 0 THEN NaN ELSE Fin(0)

\* cov() of two POI columns of a class, or the zeros build_profile leaves
\* for a class without traces (line 629).
CovOf(set) == IF Len(set) > 0 THEN "cov" ELSE "zeros"

\* estimate(), lines 326-338.
Estimate ==
    /\ leakPc = "classified"
    /\ PROFILE' = [PROFILE EXCEPT !["MEAN_TRACE"] = NdArray(0)]
    /\ MEANS' = [bnum \in KeyBytes |-> [cla \in CLASSES |-> NpAverage(SETS[bnum][cla])]]
    /\ STDS' = [bnum \in KeyBytes |-> [cla \in CLASSES |-> NpAverage(SETS[bnum][cla])]]
    /\ VARS' = [bnum \in KeyBytes |-> [cla \in CLASSES |-> NpAverage(SETS[bnum][cla])]]
    /\ UNCHANGED <<models, reduce_window, TRACES_REDUCED>>
    /\ leakPc' = "estimated"
    /\ UNCHANGED <<variable, PLAINTEXTS, KEYS, CIPHERTEXTS, VARIABLES_, CLASSES,
                   VARIABLE_FUNC, FIXED_PLAINTEXT, SETS>>
    /\ UNCHANGED <<lr_type, disk, LOADED, loadRaised, profPc>>
    /\ UNCHANGED <<poisVars, scoreVars, cmdVars, alignVars, setupVars, procVars>>

\* build_profile(variable), lines 615-632, at one POI.
BuildProfile ==
    /\ leakPc = "estimated"
    /\ PROFILE' = [PROFILE EXCEPT
                      !["MEANS"] = NdArray([bnum \in KeyBytes |-> [cla \in CLASSES |-> MEANS[bnum][cla]]]),
                      !["STDS"] = NdArray([bnum \in KeyBytes |-> [cla \in CLASSES |-> STDS[bnum][cla]]]),
                      !["COVS"] = NdArray([bnum \in KeyBytes |-> [cla \in CLASSES |-> CovOf(SETS[bnum][cla])]])]
    /\ leakPc' = "built"
    /\ UNCHANGED <<variable, PLAINTEXTS, KEYS, CIPHERTEXTS, VARIABLES_, CLASSES,
                   VARIABLE_FUNC, FIXED_PLAINTEXT, SETS>>
    /\ UNCHANGED <<lr_type, disk, LOADED, loadRaised, profPc>>
    /\ UNCHANGED <<poisVars, scoreVars, cmdVars, alignVars, estVars, setupVars, procVars>>

\* The profile command from compute_variables to build_profile, lines
\* 1013-1022, on a fresh Profile.
EstInit ==
    /\ LeakInit
    /\ MEANS = "None" /\ STDS = "None" /\ VARS = "None" /\ models = <<>>
    /\ reduce_window = 0 /\ TRACES_REDUCED = <<>>
    /\ lr_type = "None"
    /\ PROFILE = [f \in Fields |-> None]
    /\ disk = <<>>
    /\ LOADED = <<>>
    /\ loadRaised = "None"
    /\ profPc = "idle"

EstNext == ComputeVariables \/ ComputeVariablesRaise \/ Classify \/ Estimate \/ BuildProfile

----------------------------------------------------------------------------
(* The attack command from PROFILE.load() (line 1075) to the first score   *)
(* of run_attack.  A field of the profile is tracked by its number of POI  *)
(* columns and by the command that wrote it.                               *)

SetupIdle ==
    /\ pois_algo = "None"
    /\ reported = FALSE
    /\ setupRaised = "None"
    /\ setupPc = "idle"

\* A field of cols POI columns written by command by.
FieldOf(cols, by) == NdArray([cols |-> cols, by |-> by])

\* len(PROFILE.POIS[0]), len(PROFILE.COVS[0][0][0]), len(PROFILE.MEANS[b][c])
ColsOf(f) == PROFILE[f].data.cols

\* The length of arr[0:n]: a slice stops at the end of the array.
SliceLen(len, n) == Min2(len, n)

\* The profile is loaded; the options are parsed.
SetupInit ==
    /\ pois_algo \in {"", "snr", "r"}
    /\ reported = FALSE
    /\ setupRaised = "None"
    /\ setupPc = "loaded"
    /\ informative = <<>> /\ POIS = <<>> /\ poisPc = "idle"
    /\ num_pois \in 0 .. MaxPois
    /\ k_fold \in 1 .. MaxFold
    /\ poi_spacing \in 1 .. MaxSpacing
    /\ \E cols \in 1 .. MaxPois :
          /\ PROFILE = [f \in Fields |-> FieldOf(cols, "profile")]
          /\ disk = [f \in Fields |-> FieldOf(cols, "profile")]
    /\ lr_type = "None" /\ LOADED = <<>> /\ loadRaised = "None" /\ profPc = "idle"
    /\ attack_algo \in {"pdf", "pcc"}
    /\ routine = "None" /\ lenTraces = 0 /\ curByte = 0 /\ jTrace = 0
    /\ P_k = <<>> /\ P_k_tmp = <<>> /\ p_kj = <<>> /\ window = <<>>
    /\ LOG_PROBA = "None" /\ bestguess = <<>> /\ pge = <<>> /\ cparefs = <<>>
    /\ found = "None" /\ scorePc = "idle"

\* attack, lines 1121-1124: compute_variables, then a num_pois of 0 becomes
\* the number of POIs of the profile.
SetupComputeVariables ==
    /\ setupPc = "loaded"
    /\ num_pois' = IF num_pois = 0 THEN ColsOf("POIS") ELSE num_pois
    /\ setupPc' = "computed"
    /\ UNCHANGED <<informative, k_fold, poi_spacing, POIS, poisPc>>
    /\ UNCHANGED <<pois_algo, reported, setupRaised>>
    /\ UNCHANGED <<leakVars, scoreVars, cmdVars, profVars, alignVars, estVars, procVars>>

\* attack, lines 1126-1129: with pois_algo set, estimate() assigns
\* PROFILE.MEAN_TRACE, and find_pois, called with num_pois and k_fold
\* swapped, assigns PROFILE.RZS, PROFILE.RS and a PROFILE.POIS of k_fold
\* columns.
SetupFindPois ==
    /\ setupPc = "computed"
    /\ IF pois_algo = ""
       THEN PROFILE' = PROFILE
       ELSE PROFILE' = [PROFILE EXCEPT !["MEAN_TRACE"] = FieldOf(ColsOf("MEAN_TRACE"), "attack"),
                                       !["RZS"] = FieldOf(ColsOf("RZS"), "attack"),
                                       !["RS"] = FieldOf(ColsOf("RS"), "attack"),
                                       !["POIS"] = FieldOf(k_fold, "attack")]
    /\ setupPc' = "searched"
    /\ UNCHANGED <<lr_type, disk, LOADED, loadRaised, profPc>>
    /\ UNCHANGED <<pois_algo, reported, setupRaised>>
    /\ UNCHANGED <<poisVars, leakVars, scoreVars, cmdVars, alignVars, estVars, procVars>>

\* reduce_traces(num_pois, window), line 1131: PROFILE.POIS[bnum][poi] for
\* every poi below num_pois.
SetupReduceTraces ==
    /\ setupPc = "searched"
    /\ IF num_pois > ColsOf("POIS")
       THEN setupRaised' = "IndexError" /\ setupPc' = "aborted"
       ELSE setupRaised' = setupRaised /\ setupPc' = "reduced"
    /\ UNCHANGED <<pois_algo, reported>>
    /\ UNCHANGED <<poisVars, leakVars, scoreVars, cmdVars, profVars, alignVars, estVars, procVars>>

\* run_attack, lines 758-772 and 820-822: LOG_PROBA is allocated; pdf
\* prints an error and goes on, pcc asserts.
SetupRunAttack ==
    /\ setupPc = "reduced"
    /\ LOG_PROBA' = [b \in KeyBytes |-> [k \in Hyp |-> Unset]]
    /\ bestguess' = [b \in KeyBytes |-> 0]
    /\ pge' = [b \in KeyBytes |-> 256]
    /\ IF attack_algo = "pdf"
       THEN /\ reported' = (num_pois > ColsOf("COVS"))
            /\ setupPc' = "scoring"
            /\ setupRaised' = setupRaised
       ELSE /\ reported' = reported
            /\ IF ColsOf("POIS") >= num_pois
               THEN setupPc' = "scoring" /\ setupRaised' = setupRaised
               ELSE setupPc' = "aborted" /\ setupRaised' = "AssertionError"
    /\ UNCHANGED <<routine, attack_algo, lenTraces, curByte, jTrace, P_k, P_k_tmp,
                   p_kj, window, cparefs, found, scorePc>>
    /\ UNCHANGED <<pois_algo>>
    /\ UNCHANGED <<poisVars, leakVars, cmdVars, profVars, alignVars, estVars, procVars>>

\* The first score of run_attack.  pdf, lines 797-798: the density of
\* TRACES_REDUCED[bnum][j][0:num_pois] under a mean of
\* PROFILE.MEANS[bnum][cla][0:num_pois], which needs both of one length.
\* pcc, lines 847-848: leaks[:, i] for every i below num_pois.
SetupFirstScore ==
    /\ setupPc = "scoring"
    /\ IF attack_algo = "pdf"
       THEN IF SliceLen(ColsOf("MEANS"), num_pois) # num_pois
            THEN setupRaised' = "ValueError" /\ setupPc' = "aborted"
            ELSE setupRaised' = setupRaised /\ setupPc' = "scored"
       ELSE IF num_pois > ColsOf("MEANS")
            THEN setupRaised' = "IndexError" /\ setupPc' = "aborted"
            ELSE setupRaised' = setupRaised /\ setupPc' = "scored"
    /\ UNCHANGED <<pois_algo, reported>>
    /\ UNCHANGED <<poisVars, leakVars, scoreVars, cmdVars, profVars, alignVars, estVars, procVars>>

SetupNext ==
    \/ SetupComputeVariables
    \/ SetupFindPois
    \/ SetupReduceTraces
    \/ SetupRunAttack
    \/ SetupFirstScore

----------------------------------------------------------------------------
(* The SNR curve: estimate_snr, then the POI search on it.  The traces     *)
(* fall into two classes.                                                  *)

\* The statistics of one sample: the mean and the variance of each class.
SnrColumns ==
    {[means |-> m, vars_ |-> v] : m \in {<<0, 0>>, <<0, 2>>}, v \in {<<0, 0>>, <<1, 1>>}}

\* a / b on float64, for a and b not negative: a division by zero does not
\* raise, it gives NaN for 0/0 and an infinity otherwise.
NpDivide(a, b) ==
    IF b = 0 THEN (IF a = 0 THEN NaN ELSE PosInf) ELSE Fin(a \div b)

\* np.var(MEANS[bnum], axis=0) / np.average(VARS[bnum], axis=0) at sample s.
SnrOf(means, vars_, s) ==
    LET mu == (means[0][s] + means[1][s]) \div 2
        varOfMeans == ((means[0][s] - mu) * (means[0][s] - mu)
                        + (means[1][s] - mu) * (means[1][s] - mu)) \div 2
        avgOfVars == (vars_[0][s] + vars_[1][s]) \div 2
    IN  NpDivide(varOfMeans, avgOfVars)

\* estimate_snr(), lines 341-345; find_pois takes SNRS as its curve (line
\* 492).
EstimateSnr ==
    /\ poisPc = "snr"
    /\ informative' = [bnum \in KeyBytes |->
                          [s \in Samples |-> SnrOf(MEANS[bnum], VARS[bnum], s)]]
    /\ poisPc' = "start"
    /\ UNCHANGED <<num_pois, k_fold, poi_spacing, POIS>>
    /\ UNCHANGED notPois

SnrNext == EstimateSnr \/ FindPois

----------------------------------------------------------------------------
(* The regression basis of fit(lr_type, variable), lr_type "linear".       *)

\* Python's a & b on bytes.
RECURSIVE BitAnd(_, _, _)
BitAnd(a, b, n) ==
    IF n = 0 THEN 0
    ELSE ((a % 2) * (b % 2)) + 2 * BitAnd(a \div 2, b \div 2, n - 1)

\* 2 ** i
RECURSIVE Pow2(_)
Pow2(i) == IF i = 0 THEN 1 ELSE 2 * Pow2(i - 1)

\* leak_func = lambda x : [(x >> i) & i for i in range(0, num_betas-1)]
leak_func(x) == [i \in 0 .. 7 |-> BitAnd(x \div Pow2(i), i, 8)]

\* sm.add_constant(models, prepend=False): a last column of ones.
AddConstant(row) == [i \in 0 .. ArrLen(row) |-> IF i < ArrLen(row) THEN row[i] ELSE 1]

\* fit, lines 706-707: models = add_constant(list(map(leak_func, CLASSES))).
FitModels ==
    /\ leakPc = "computed"
    /\ models' = [cla \in CLASSES |-> AddConstant(leak_func(cla))]
    /\ leakPc' = "fit_models"
    /\ UNCHANGED <<variable, PLAINTEXTS, KEYS, CIPHERTEXTS, VARIABLES_, CLASSES,
                   VARIABLE_FUNC, FIXED_PLAINTEXT, SETS>>
    /\ UNCHANGED <<MEANS, STDS, VARS, reduce_window, TRACES_REDUCED>>
    /\ UNCHANGED <<poisVars, scoreVars, cmdVars, profVars, alignVars, setupVars, procVars>>

FitNext == ComputeVariables \/ ComputeVariablesRaise \/ FitModels

----------------------------------------------------------------------------
(* Trace reduction: reduce_traces(num_pois, window) on the POIs found.     *)

\* The indices of trace[a:b] for a trace of n samples: a negative bound
\* counts from the end, and both are clipped to 0..n.
PySlice(n, a, b) ==
    LET lo == IF a < 0 THEN Max2(a + n, 0) ELSE Min2(a, n)
        hi == IF b < 0 THEN Max2(b + n, 0) ELSE Min2(b, n)
    IN  {i \in 0 .. n - 1 : lo <= i /\ i < hi}

\* start = PROFILE.POIS[bnum][poi]-window; end = PROFILE.POIS[bnum][poi]+window+1;
\* np.average(trace[start:end])
ReducedSamples(n, poi, w) == PySlice(n, poi - w, poi + w + 1)

\* reduce_traces(num_pois, window), lines 601-612.
ReduceTraces ==
    /\ poisPc = "find_pois"
    /\ \E w \in 0 .. MaxWindow :
          /\ reduce_window' = w
          /\ TRACES_REDUCED' = [bnum \in KeyBytes |-> [poi \in 0 .. num_pois - 1 |->
                                   ReducedSamples(TraceLen, POIS[bnum][poi], w)]]
    /\ poisPc' = "reduced"
    /\ UNCHANGED <<informative, num_pois, k_fold, poi_spacing, POIS>>
    /\ UNCHANGED <<MEANS, STDS, VARS, models>>
    /\ UNCHANGED <<leakVars, scoreVars, cmdVars, profVars, alignVars, setupVars, procVars>>

ReduceNext == FindPois \/ ReduceTraces

----------------------------------------------------------------------------
(* DatasetProcessing.process(): the batches of worker processes, the       *)
(* queue of results, the resume index and the SIGINT handler.              *)

TraceIds == 0 .. MaxTraceCount - 1

\* A trace (np.ndarray) of a given shape, zero-filled or not.
Trace(shp, z) == NdArray([shape |-> shp, zeros |-> z])

\* sset.template: the reference trace of the subset.
Template == Trace(2, FALSE)

\* What self.process_fn returns for a trace: None when the processing
\* fails, a trace of the shape of the template, or a shorter one.
Outcomes == {None, Trace(2, FALSE), Trace(1, FALSE)}

\* get_bad_trace(ref): np.zeros(ref.shape, dtype=ref.dtype)
GetBadTrace(ref) == Trace(ref.data.shape, TRUE)

\* fill_zeros_if_bad(ref, test): after "if test is None: bad = True" the
\* next statement reads test.shape, which raises for None.
FillZerosIfBad(ref, test) ==
    IF test.kind = "None"
    THEN [raised |-> "AttributeError", bad |-> TRUE, trace |-> None]
    ELSE IF test.data.shape # ref.data.shape
    THEN [raised |-> "None", bad |-> TRUE, trace |-> GetBadTrace(ref)]
    ELSE [raised |-> "None", bad |-> FALSE, trace |-> test]

\* __process_fn, lines 1047-1056, for trace idx whose processing gave ff:
\* the exception raised, the flag check and the trace ff_checked.
CheckTrace(idx, ff) ==
    IF idx > 0 THEN FillZerosIfBad(Template, ff)
    ELSE IF ff.kind # "None" THEN [raised |-> "None", bad |-> FALSE, trace |-> ff]
    ELSE [raised |-> "Exception", bad |-> FALSE, trace |-> None]

\* is_parallel()
IsParallel == process_nb > 0

\* (mutant) as many processes as configured, whatever the stop index
PsLenFull(i, nb, s) == nb

\* _init, lines 903-906: the number of processes of the batch at index i
\* for a stop index s ([None] * n is empty for a negative n).
PsLen(i, nb, s) ==
    Max2(IF i + nb >= s THEN nb - (i + nb - s) ELSE nb, 0)

\* (mutant) a step of the configured number of processes
IStepConfigured(n) == IF process_nb > 0 THEN process_nb ELSE 1

\* _end, line 956: i_step = len(ps) if self.process_nb > 0 else 1
IStep(n) == IF process_nb > 0 THEN n ELSE 1

ProcIdle ==
    /\ start = 0 /\ stop = 0 /\ stop0 = 0
    /\ process_nb = 0 /\ process_nb_bak = 0
    /\ loop_i = 0 /\ ps = <<>> /\ batch_late = FALSE /\ q = <<>> /\ got = 0
    /\ bad_entries = <<>> /\ dirty_idx = 0
    /\ processed = <<>> /\ saved = <<>>
    /\ interrupted = FALSE /\ procRaised = "None" /\ procPc = "idle"

\* process() is entered after create() and resume(): "i = self.start".
ProcInit ==
    /\ stop \in 0 .. MaxTraceCount
    /\ stop0 = stop
    /\ start \in 0 .. stop
    /\ process_nb \in 0 .. MaxWorkers
    /\ process_nb_bak = process_nb
    /\ loop_i = start
    /\ ps = <<>> /\ batch_late = FALSE /\ q = <<>> /\ got = 0
    /\ bad_entries = <<>>
    /\ dirty_idx = start
    /\ processed = [idx \in TraceIds |-> 0]
    /\ saved = [idx \in TraceIds |-> Absent]
    /\ interrupted = FALSE
    /\ procRaised = "None"
    /\ procPc = "while"

\* "while i < self.stop", line 973.
LoopCheck ==
    /\ procPc = "while"
    /\ procPc' = IF loop_i < stop THEN "init" ELSE "done"
    /\ UNCHANGED <<start, stop, stop0, process_nb, process_nb_bak, loop_i, ps,
                   batch_late, q, got, bad_entries, dirty_idx, processed, saved,
                   interrupted, procRaised>>
    /\ UNCHANGED <<poisVars, leakVars, scoreVars, cmdVars, profVars, alignVars, estVars,
                   setupVars>>

\* "q, ps = _init(i, self.stop)", lines 889-912: disable_parallel(i == 0),
\* a new Queue, and the processes of the batch, created but not started.
LoopInit ==
    /\ procPc = "init"
    /\ LET disable == loop_i = 0 /\ IsParallel
           nb == IF disable THEN 0 ELSE process_nb
       IN  /\ process_nb' = nb
           /\ process_nb_bak' = IF disable THEN process_nb ELSE process_nb_bak
           /\ ps' = [k \in 1 .. PsLen(loop_i, nb, stop) |->
                        [idx |-> loop_i + k - 1, st |-> "created"]]
    /\ batch_late' = interrupted
    /\ q' = <<>>
    /\ got' = 0
    /\ procPc' = "run"
    /\ UNCHANGED <<start, stop, stop0, loop_i, bad_entries, dirty_idx, processed,
                   saved, interrupted, procRaised>>
    /\ UNCHANGED <<poisVars, leakVars, scoreVars, cmdVars, profVars, alignVars, estVars,
                   setupVars>>

\* _run in parallel, lines 920-923: proc.start() for the next process of
\* ps, until all are started.
RunParallel ==
    /\ procPc = "run" /\ IsParallel
    /\ LET created == {k \in DOMAIN ps : ps[k].st = "created"}
       IN  IF created = {}
           THEN ps' = ps /\ procPc' = "get"
           ELSE LET k == CHOOSE c \in created : \A d \in created : c <= d
                IN  ps' = [ps EXCEPT ![k].st = "started"] /\ procPc' = procPc
    /\ UNCHANGED <<start, stop, stop0, process_nb, process_nb_bak, loop_i, batch_late,
                   q, got, bad_entries, dirty_idx, processed, saved, interrupted,
                   procRaised>>
    /\ UNCHANGED <<poisVars, leakVars, scoreVars, cmdVars, profVars, alignVars, estVars,
                   setupVars>>

\* _run sequentially, line 926: __process_fn(q, ..., i, ...) in the main
\* process; an exception ends process().
RunSequential ==
    /\ procPc = "run" /\ ~IsParallel
    /\ \E ff \in Outcomes :
         LET r == CheckTrace(loop_i, ff)
         IN  /\ processed' = [processed EXCEPT ![loop_i] = @ + 1]
             /\ procRaised' = r.raised
             /\ IF r.raised # "None"
                THEN procPc' = "aborted" /\ UNCHANGED <<saved, q>>
                ELSE /\ saved' = [saved EXCEPT ![loop_i] = r.trace]
                     /\ q' = Append(q, <<r.bad, loop_i>>)
                     /\ procPc' = "get"
    /\ UNCHANGED <<start, stop, stop0, process_nb, process_nb_bak, loop_i, ps,
                   batch_late, got, bad_entries, dirty_idx, interrupted>>
    /\ UNCHANGED <<poisVars, leakVars, scoreVars, cmdVars, profVars, alignVars, estVars,
                   setupVars>>

\* __process_fn in a started worker process, lines 1029-1067: an exception
\* ends the worker before q.put.
WorkerRun ==
    /\ \E k \in DOMAIN ps : \E ff \in Outcomes :
         /\ ps[k].st = "started"
         /\ LET r == CheckTrace(ps[k].idx, ff)
            IN  /\ processed' = [processed EXCEPT ![ps[k].idx] = @ + 1]
                /\ IF r.raised # "None"
                   THEN procRaised' = r.raised /\ UNCHANGED <<saved, q>>
                   ELSE /\ saved' = [saved EXCEPT ![ps[k].idx] = r.trace]
                        /\ q' = Append(q, <<r.bad, ps[k].idx>>)
                        /\ procRaised' = procRaised
         /\ ps' = [ps EXCEPT ![k].st = "exited"]
    /\ UNCHANGED <<start, stop, stop0, process_nb, process_nb_bak, loop_i, batch_late,
                   got, bad_entries, dirty_idx, interrupted, procPc>>
    /\ UNCHANGED <<poisVars, leakVars, scoreVars, cmdVars, profVars, alignVars, estVars,
                   setupVars>>

\* _get, lines 928-935: one q.get() for every process of ps; a get on an
\* empty queue that no worker will fill blocks for ever.
Get ==
    /\ procPc = "get"
    /\ IF got = Len(ps)
       THEN procPc' = "end" /\ UNCHANGED <<q, got, bad_entries>>
       ELSE IF q # <<>>
       THEN /\ q' = Tail(q)
            /\ got' = got + 1
            /\ bad_entries' = IF Head(q)[1] THEN Append(bad_entries, Head(q)[2])
                              ELSE bad_entries
            /\ procPc' = procPc
       ELSE /\ \A k \in DOMAIN ps : ps[k].st = "exited"
            /\ procPc' = "hung"
            /\ UNCHANGED <<q, got, bad_entries>>
    /\ UNCHANGED <<start, stop, stop0, process_nb, process_nb_bak, loop_i, ps,
                   batch_late, dirty_idx, processed, saved, interrupted, procRaised>>
    /\ UNCHANGED <<poisVars, leakVars, scoreVars, cmdVars, profVars, alignVars, estVars,
                   setupVars>>

\* "i = _end(i, ps, pbar=pbar)", lines 937-966: join every process, step
\* the index, save dirty_idx, restore_parallel(i_done == 0).
End ==
    /\ procPc = "end"
    /\ \A k \in DOMAIN ps : ps[k].st = "exited"
    /\ loop_i' = loop_i + IStep(Len(ps))
    /\ dirty_idx' = loop_i'
    /\ process_nb' = IF loop_i = 0 /\ process_nb_bak > 0 THEN process_nb_bak
                     ELSE process_nb
    /\ procPc' = "while"
    /\ UNCHANGED <<start, stop, stop0, process_nb_bak, ps, batch_late, q, got,
                   bad_entries, processed, saved, interrupted, procRaised>>
    /\ UNCHANGED <<poisVars, leakVars, scoreVars, cmdVars, profVars, alignVars, estVars,
                   setupVars>>

\* __signal_handler, lines 1069-1078, between any two steps of the main
\* process: DPROC.stop = 0.
Sigint ==
    /\ procPc \in {"while", "init", "run", "get", "end"}
    /\ ~interrupted
    /\ stop' = 0
    /\ interrupted' = TRUE
    /\ UNCHANGED <<start, stop0, process_nb, process_nb_bak, loop_i, ps, batch_late, q,
                   got, bad_entries, dirty_idx, processed, saved, procRaised, procPc>>
    /\ UNCHANGED <<poisVars, leakVars, scoreVars, cmdVars, profVars, alignVars, estVars,
                   setupVars>>

ProcNext ==
    \/ LoopCheck
    \/ LoopInit
    \/ RunParallel
    \/ RunSequential
    \/ WorkerRun
    \/ Get
    \/ End
    \/ Sigint

----------------------------------------------------------------------------
(* Specifications.                                                         *)

InitPois == PoisInit /\ LeakIdle /\ ScoreIdle /\ CmdIdle /\ ProfIdle /\ AlignIdle /\ EstIdle /\ SetupIdle /\ ProcIdle

SpecPois == InitPois /\ [][PoisNext]_vars

\* compute_variables and classify on the sampled data sets.
InitLeak == LeakInit /\ PoisIdle /\ ScoreIdle /\ CmdIdle /\ ProfIdle /\ AlignIdle /\ EstIdle /\ SetupIdle /\ ProcIdle

SpecLeak == InitLeak /\ [][LeakNext]_vars

\* compute_variables on one trace, over all byte values.
InitLabel == LabelInit /\ PoisIdle /\ ScoreIdle /\ CmdIdle /\ ProfIdle /\ AlignIdle /\ EstIdle /\ SetupIdle /\ ProcIdle

SpecLabel == InitLabel /\ [][ComputeVariables]_vars

\* run_attack and tra_attack: scoring and ranking.
InitScore == ScoreInit /\ PoisIdle /\ CmdIdle /\ ProfIdle /\ AlignIdle /\ EstIdle /\ SetupIdle /\ ProcIdle

SpecScore == InitScore /\ [][ScoreNext]_vars

\* The commands attack and attack_recombined.
InitAttack == CmdInit /\ PoisIdle /\ ProfIdle /\ AlignIdle /\ EstIdle /\ SetupIdle /\ ProcIdle

SpecAttack == InitAttack /\ [][CmdNext]_vars

\* The profile command from fit on, then the load of the saved profile.
InitProfile == ProfInit /\ PoisIdle /\ LeakIdle /\ ScoreIdle /\ CmdIdle /\ AlignIdle /\ EstIdle /\ SetupIdle /\ ProcIdle

SpecProfile == InitProfile /\ [][ProfNext]_vars

\* align on every pair of signals of up to MaxSigLen samples.
InitAlign ==
    AlignInit /\ PoisIdle /\ LeakIdle /\ ScoreIdle /\ CmdIdle /\ ProfIdle /\ EstIdle /\ SetupIdle /\ ProcIdle

SpecAlign == InitAlign /\ [][AlignNext]_vars

\* The profile command up to build_profile on the sampled data sets.
InitEstimate == EstInit /\ PoisIdle /\ ScoreIdle /\ CmdIdle /\ AlignIdle /\ SetupIdle /\ ProcIdle

SpecEstimate == InitEstimate /\ [][EstNext]_vars

\* The attack command on a loaded profile, over the options num_pois,
\* k_fold, pois_algo and attack_algo.
InitSetup == SetupInit /\ LeakIdle /\ CmdIdle /\ AlignIdle /\ EstIdle /\ ProcIdle

SpecSetup == InitSetup /\ [][SetupNext]_vars

\* find_pois with pois_algo "snr" after estimate(), every key byte with the
\* same class statistics.
InitSnr ==
    /\ \E cols \in [Samples -> SnrColumns] :
          /\ MEANS = [bnum \in KeyBytes |-> [cla \in {0, 1} |->
                         [s \in Samples |-> cols[s].means[cla + 1]]]]
          /\ VARS = [bnum \in KeyBytes |-> [cla \in {0, 1} |->
                         [s \in Samples |-> cols[s].vars_[cla + 1]]]]
    /\ STDS = VARS
    /\ models = <<>>
    /\ reduce_window = 0 /\ TRACES_REDUCED = <<>>
    /\ informative = <<>>
    /\ num_pois \in 1 .. MaxPois
    /\ k_fold = 1
    /\ poi_spacing \in 1 .. MaxSpacing
    /\ POIS = <<>>
    /\ poisPc = "snr"
    /\ LeakIdle /\ ScoreIdle /\ CmdIdle /\ ProfIdle /\ AlignIdle /\ SetupIdle /\ ProcIdle

SpecSnr == InitSnr /\ [][SnrNext]_vars

\* compute_variables, then the regression rows of fit, for every model.
SpecFit == InitLeak /\ [][FitNext]_vars

\* find_pois, then reduce_traces with every window up to MaxWindow.
SpecReduce == InitPois /\ [][ReduceNext]_vars

\* process() on up to MaxTraceCount traces with up to MaxWorkers workers.
InitProcess ==
    /\ ProcInit
    /\ PoisIdle /\ LeakIdle /\ ScoreIdle /\ CmdIdle /\ ProfIdle /\ AlignIdle
    /\ EstIdle /\ SetupIdle

SpecProcess == InitProcess /\ [][ProcNext]_vars

----------------------------------------------------------------------------
(* C1.  POI selection never returns two points closer than poi_spacing for *)
(* the same key byte: any two of the selected indices differ by at least   *)
(* poi_spacing, so no index is selected twice.                             *)

Dist(a, b) == IF a >= b THEN a - b ELSE b - a

PoisSpaced ==
    \A bnum \in DOMAIN POIS :
        \A i, j \in DOMAIN POIS[bnum] :
            i # j => Dist(POIS[bnum][i], POIS[bnum][j]) >= poi_spacing

C1_PoisSpaced == poisPc \in {"find_pois", "tra_create"} => PoisSpaced

----------------------------------------------------------------------------
(* C2.  Every trace appears in exactly one class partition per key byte:   *)
(* after classify(), for each key byte the per-class sets are pairwise     *)
(* disjoint, their sizes sum to the number of traces, and a trace is in    *)
(* the set of class c exactly when its label for that byte is c.           *)

Elems(s) == {s[i] : i \in DOMAIN s}

\* The sum of the sizes of the per-class sets: the number of (class,
\* position) slots they hold.
SumSizes(sets, classes) ==
    Cardinality({s \in classes \X (1 .. MaxTraces) : s[2] <= Len(sets[s[1]])})

\* The classes that hold a trace; an empty set is disjoint from every set.
NonEmpty(bnum) == {c \in CLASSES : Len(SETS[bnum][c]) > 0}

PartitionOf(bnum) ==
    /\ \A c, d \in NonEmpty(bnum) :
           c # d => Elems(SETS[bnum][c]) \cap Elems(SETS[bnum][d]) = {}
    /\ SumSizes(SETS[bnum], CLASSES) = Cardinality(TraceIdx)
    /\ \A j \in TraceIdx : \A c \in CLASSES :
           (j \in Elems(SETS[bnum][c])) <=> (VARIABLES_[bnum][j] = c)

C2_Partition == leakPc = "classified" => \A bnum \in KeyBytes : PartitionOf(bnum)

\* Two traces that fall in different classes for byte 0 and in the same
\* class for byte 1.
C2_Witness ==
    /\ leakPc = "classified"
    /\ Cardinality(TraceIdx) = 2
    /\ VARIABLES_[0][0] # VARIABLES_[0][1]
    /\ VARIABLES_[1][0] = VARIABLES_[1][1]
    /\ Len(SETS[1][VARIABLES_[1][0]]) = 2

----------------------------------------------------------------------------
(* C3.  For every model of the catalog and every plaintext byte p and key  *)
(* byte k, the label computed for a trace is a member of the model's class *)
(* set, whose size is 2, 7, 9 or 256: it is a valid non-negative index of  *)
(* the per-class tables.  The model "hd" never yields -1 or 7.             *)

C3_LabelInClasses ==
    leakPc = "computed" =>
        /\ Cardinality(CLASSES) \in {2, 7, 9, 256}
        /\ \A bnum \in KeyBytes : \A j \in TraceIdx :
               /\ VARIABLES_[bnum][j] \in CLASSES
               /\ VARIABLES_[bnum][j] >= 0
               /\ VARIABLES_[bnum][j] < Cardinality(CLASSES)

\* The model "hd" reaches its last class, 6.
C3_Witness ==
    /\ leakPc = "computed"
    /\ variable = "hd"
    /\ VARIABLES_[0][0] = 6

----------------------------------------------------------------------------
(* C4.  In both attack modes (pdf and pcc) and for every key byte, the     *)
(* rank (PGE) is 0 exactly when the best guess equals the true value the   *)
(* rank is taken against, including when several hypotheses have equal     *)
(* scores.                                                                 *)

\* The value the rank of byte b is taken against.
TruthOf(b) == IF attack_algo = "pdf" THEN PdfTruth(b) ELSE KEYS[0][b]

C4_RankZeroIffGuessed ==
    (scorePc = "ranked" /\ routine = "run_attack") =>
        \A b \in KeyBytes : (pge[b] = 0) <=> (bestguess[b] = TruthOf(b))

----------------------------------------------------------------------------
(* C5.  In every attack run the stages come in the order trace reduction,  *)
(* scoring, ranking; key enumeration (Bruteforced) comes only after        *)
(* ranking, and a run that has ranked ends having enumerated exactly when  *)
(* bruteforce was requested and the best guess differs from the known      *)
(* value; otherwise it ends in Ranked, without an error.  This holds for   *)
(* attack and for attack_recombined.                                       *)

StagesInOrder ==
    \A i \in DOMAIN trail :
        /\ trail[i] = "Scoring" => (i > 1 /\ trail[i - 1] = "ReducingTraces")
        /\ trail[i] = "Ranked" => \E j \in 1 .. i - 1 : trail[j] = "Scoring"
        /\ trail[i] = "Bruteforced" =>
               (i = Len(trail) /\ \E j \in 1 .. i - 1 : trail[j] = "Ranked")

\* The command has ended after its ranking.
EndedAfterRanking ==
    /\ cmdPc \in {"done", "aborted"}
    /\ raised \notin {"Exception", "UnboundLocalError"}

\* known: of run_attack for attack, line 1260 for attack_recombined.
CmdKnown == IF command = "attack" THEN Known ELSE KEYS[0]

Enumerated == \E i \in DOMAIN trail : trail[i] = "Bruteforced"

C5_BruteforceAfterRanking ==
    /\ StagesInOrder
    /\ EndedAfterRanking =>
           /\ Enumerated <=> (BRUTEFORCE /\ ~AllEqual(bestguess, CmdKnown))
           /\ ~Enumerated => (raised = "None" /\ trail[Len(trail)] = "Ranked")

----------------------------------------------------------------------------
(* C6.  In every attack entry point (attack and attack_recombined), when   *)
(* the attack set is not fixed-key and the model is neither "p" nor "hw_p" *)
(* the command never gets past its start: compute_variables,               *)
(* reduce_traces and run_attack do not run.                                *)

C6_MismatchAborts ==
    (cmdPc # "idle" /\ ~FIXED_KEY /\ variable \notin {"p", "hw_p"}) =>
        (cmdPc \in {"start", "aborted"} /\ trail = <<>>)

----------------------------------------------------------------------------
(* C7.  After attack_recombined has fused the two channels, for every key  *)
(* byte and hypothesis the fused entry is amplitude score + phase score,   *)
(* the matrix handed to the ranker is the fused matrix, the best guess is  *)
(* its arg-max and the PGE a rank in it, and the fusion of the channels    *)
(* taken in the other order gives the same best guess and rank.            *)

----------------------------------------------------------------------------
(* C8.  In template (pdf) scoring, whatever each per-trace density         *)
(* evaluates to (zero, negative, NaN or positive), every entry of the      *)
(* final score vector of every key byte is finite.                         *)

C8_ScoresFinite ==
    (scorePc = "ranked" /\ (routine = "tra_attack" \/ attack_algo = "pdf")) =>
        \A b \in KeyBytes : \A k \in Hyp : IsFinite(LOG_PROBA[b][k])

----------------------------------------------------------------------------
(* C9.  For any single trace, the increment run_attack adds to the score   *)
(* of a hypothesis whose density is zero is no greater than the increment  *)
(* it adds to any hypothesis whose density on that trace is positive.      *)

C9_ZeroIsLowest ==
    (routine = "run_attack" /\ attack_algo = "pdf" /\ scorePc = "scoring"
        /\ jTrace > 0) =>
        \A k, m \in Hyp :
            (p_kj[k].k = "zero" /\ p_kj[m].k = "pos") => FLe(P_k_tmp[k], P_k_tmp[m])

----------------------------------------------------------------------------
(* C10.  For every profile the profile command saves, with or without the  *)
(* regression fit, loading it back succeeds and yields the same POIS, RS,  *)
(* RZS, MEANS, STDS, COVS and MEAN_TRACE as before the save.               *)

C10_LoadSaveSymmetric ==
    profPc = "loaded" =>
        /\ loadRaised = "None"
        /\ \A f \in Fields : LOADED[f] = PROFILE[f]

----------------------------------------------------------------------------
(* C12.  An attack run never fails because the ranking / enumeration       *)
(* engine (python_hel) is absent: when it cannot be imported no step of    *)
(* the command raises for that reason.                                     *)

C12_EngineAbsentTolerated ==
    (cmdPc # "idle" /\ ~helInstalled) => raised # "ImportError"

----------------------------------------------------------------------------
(* C13.  compute_variables raises for every name outside the catalog, and  *)
(* no later step (classify) runs with labels, a class set or a labeling    *)
(* function derived from that name.                                        *)

\* The names of the catalog, spelled out.
KnownNames == {"hw_sbox_out", "hw_p_xor_k", "sbox_out", "p_xor_k", "p", "hw_p",
               "hw_k", "k", "hd", "fixed_vs_fixed", "c", "hw_c"}

C13_UnknownModelRaises ==
    (leakPc # "idle" /\ variable \notin KnownNames) =>
        /\ leakPc \in {"start", "raised"}
        /\ CLASSES = "None" /\ VARIABLE_FUNC = "None" /\ SETS = "None"

\* compute_variables("") has raised.
C13_Witness ==
    /\ variable = ""
    /\ leakPc = "raised"
    /\ FIXED_PLAINTEXT = FALSE

----------------------------------------------------------------------------
(* C14.  In either attack mode the rank of every key byte is taken against *)
(* the same ground truth as the final success verdict: the plaintext byte  *)
(* when the model is plaintext-only ("p", "hw_p"), the key byte otherwise. *)

C14_TruthConsistent ==
    (scorePc = "ranked" /\ routine = "run_attack") =>
        /\ found = AllEqual(bestguess, Known)
        /\ \A b \in KeyBytes : pge[b] = IndexOf(cparefs[b], Known[b])

----------------------------------------------------------------------------
(* C15.  For a target identical to the template and not constant zero,     *)
(* the shift align computes is zero and the array it returns equals the    *)
(* target sample for sample.                                               *)

NonZero(sig) == \E n \in DOMAIN sig : sig[n] # 0

----------------------------------------------------------------------------
(* C16.  For every signal and every shift align can compute, template and  *)
(* target of different lengths included, the returned array has exactly    *)
(* the length of the target: a positive shift drops the leading samples    *)
(* and zero-pads the end, a negative shift does the mirror, the kept       *)
(* samples in order.                                                       *)

C16_ShiftKeepsLength ==
    alignPc = "aligned" =>
        /\ ArrLen(aligned) = ArrLen(target)
        /\ \A i \in DOMAIN aligned :
               aligned[i] = IF i + shiftVal \in DOMAIN target
                            THEN target[i + shiftVal] ELSE 0

----------------------------------------------------------------------------
(* C17.  With ignore false, align aborts with an error for every shift     *)
(* whose magnitude exceeds 10% of the length of the template, and returns  *)
(* an aligned trace only for a shift below that bound.                     *)

C17_HighShiftAborts ==
    (alignPc = "aligned" /\ ~ignore) => 10 * Abs(shiftVal) <= ArrLen(template)

----------------------------------------------------------------------------
(* C18.  After every POI search, at profile time or at attack time with    *)
(* pois_algo set, the profile holds exactly num_pois POIs for each key     *)
(* byte.                                                                   *)

C18_NumPoisSelected ==
    poisPc \in {"find_pois", "attack_find_pois"} =>
        \A bnum \in KeyBytes : ArrLen(POIS[bnum]) = num_pois

----------------------------------------------------------------------------
(* C20.  A class without traces is skipped by estimation and profile       *)
(* building: no mean or standard deviation of the built profile is NaN.    *)

C20_NoNaNInProfile ==
    leakPc = "built" =>
        \A bnum \in KeyBytes : \A cla \in CLASSES :
            /\ PROFILE["MEANS"].data[bnum][cla] # NaN
            /\ PROFILE["STDS"].data[bnum][cla] # NaN

----------------------------------------------------------------------------
(* C11.  From the moment the profile is loaded until the attack command    *)
(* returns, every field of the Profile is the one that was loaded, for     *)
(* every combination of options, pois_algo set included.                   *)

C11_ProfileReadOnly ==
    setupPc # "idle" => \A f \in Fields : PROFILE[f] = disk[f]

----------------------------------------------------------------------------
(* C19.  When num_pois exceeds the number of POIs of the loaded profile,   *)
(* run_attack aborts at its check in both modes: it never goes on to       *)
(* score.                                                                  *)

C19_TooManyPoisAborts ==
    (setupPc \in {"scoring", "scored"}) => num_pois <= disk["POIS"].data.cols

----------------------------------------------------------------------------
(* C21.  The SNR curve of a signal whose variance is zero in every class   *)
(* holds a finite value at such a sample, and the POI search on the curve  *)
(* selects no sample whose SNR is NaN.                                     *)

C21_SnrDefined ==
    poisPc \in {"start", "find_pois"} =>
        \A bnum \in KeyBytes :
            /\ \A s \in Samples :
                   (\A cla \in DOMAIN VARS[bnum] : VARS[bnum][cla][s] = 0) =>
                       IsFinite(informative[bnum][s])
            /\ poisPc = "find_pois" =>
                   \A i \in DOMAIN POIS[bnum] : informative[bnum][POIS[bnum][i]] # NaN

----------------------------------------------------------------------------
(* C22.  The regression row of every leakage value x has 9 predictors:     *)
(* predictor i, for i in 0..7, is bit i of x, and the ninth is 1.          *)

C22_BitIndicators ==
    leakPc = "fit_models" =>
        \A x \in DOMAIN models :
            /\ ArrLen(models[x]) = 9
            /\ \A i \in 0 .. 7 : models[x][i] = (x \div Pow2(i)) % 2
            /\ models[x][8] = 1

----------------------------------------------------------------------------
(* C23.  After build_profile then fit, either no regression type was       *)
(* given and every field of the profile is unchanged, or one was given,    *)
(* the covariance is discarded (None) and only the means are replaced; a   *)
(* fitted profile never holds a covariance, and loading it for scoring     *)
(* stops with an error at the covariance.                                  *)

C23_FitStep ==
    (profPc = "built" /\ profPc' = "fitted") =>
        IF lr_type = "None" THEN PROFILE' = PROFILE
        ELSE /\ PROFILE'["COVS"] = None
             /\ \A f \in Fields \ {"MEANS", "COVS"} : PROFILE'[f] = PROFILE[f]

C23_FittedHasNoCovs ==
    /\ (profPc \in {"fitted", "saved", "loaded"} /\ lr_type # "None") =>
           PROFILE["COVS"] = None
    /\ (profPc = "loaded" /\ lr_type # "None") =>
           /\ loadRaised = "ValueError"
           /\ LOADED["COVS"] = None

C23_FitExclusive == [][C23_FitStep]_vars /\ []C23_FittedHasNoCovs

C23_Witness ==
    /\ profPc = "loaded" /\ lr_type = "linear"
    /\ PROFILE["COVS"] = None
    /\ PROFILE["MEANS"] # None
    /\ loadRaised = "ValueError"

----------------------------------------------------------------------------
(* C24.  In the recombined attack, for attack_algo pdf as well as pcc,     *)
(* every per-channel call of run_attack returns the score matrix it just   *)
(* computed: the call does not raise, and the matrix is held for fusing.   *)

C24_ChannelScoresReturned ==
    (command = "attack_recombined" /\ \E i \in DOMAIN trail : trail[i] = "Scoring") =>
        /\ raised # "UnboundLocalError"
        /\ \E c \in DOMAIN maxcpa : maxcpa[c] = LOG_PROBA

----------------------------------------------------------------------------
(* C25.  After a compute_variables call that succeeded for model v, the    *)
(* class set, the labeling function and the plaintext-only flag are those  *)
(* of v, for every catalog entry, "c" and "hw_c" included.                 *)

C25_ModelStateComplete ==
    leakPc \in {"computed", "classified"} =>
        /\ CLASSES = ClassesOf(variable)
        /\ FIXED_PLAINTEXT = (variable \in {"p", "hw_p"})
        /\ VARIABLE_FUNC = variable

----------------------------------------------------------------------------
(* C26.  For every POI p and window w >= 0 the reduced value is the        *)
(* average of a non-empty range of samples that contains p and lies        *)
(* inside [p-w, p+w] within the trace, also when p < w or p + w reaches    *)
(* the end of the trace; with w = 0 it is the sample at p.                 *)

C26_WindowAroundPoi ==
    poisPc = "reduced" =>
        \A bnum \in KeyBytes : \A poi \in DOMAIN TRACES_REDUCED[bnum] :
            LET p == POIS[bnum][poi]
                avg == TRACES_REDUCED[bnum][poi]
            IN  /\ avg # {}
                /\ p \in avg
                /\ avg \subseteq (p - reduce_window) .. (p + reduce_window)
                /\ reduce_window = 0 => avg = {p}

----------------------------------------------------------------------------
(* C27.  fill_zeros_if_bad never raises: a processing step that failed     *)
(* (result None) for a trace after the first gives a zero-filled bad       *)
(* trace, and no run of process() sees an AttributeError.                  *)

C27_FillZerosNeverRaises ==
    procPc # "idle" => procRaised # "AttributeError"

----------------------------------------------------------------------------
(* C28.  Without a SIGINT, process() runs the processing function on       *)
(* every index of [start, stop) exactly once and on no other index;        *)
(* trace 0 is processed in the main process before any worker exists;      *)
(* between batches dirty_idx is the smallest index not yet processed.      *)

Contiguous(first, next) ==
    \A idx \in TraceIds :
        /\ (first <= idx /\ idx < next) => processed[idx] = 1
        /\ idx >= next => processed[idx] = 0

C28_EachTraceOnce ==
    procPc # "idle" =>
        /\ \A idx \in TraceIds :
              /\ processed[idx] <= 1
              /\ processed[idx] > 0 => (start <= idx /\ idx < stop0)
        /\ (procPc = "done" /\ ~interrupted) =>
              \A idx \in TraceIds : (start <= idx /\ idx < stop0) => processed[idx] = 1
        /\ \A k \in DOMAIN ps : ps[k].idx > 0
        /\ (start = 0 /\ ps # <<>>) => processed[0] = 1
        /\ procPc \in {"while", "done"} =>
              dirty_idx = loop_i /\ Contiguous(start, dirty_idx)

C28_Witness ==
    /\ procPc = "done" /\ ~interrupted
    /\ start = 0 /\ stop0 = MaxTraceCount /\ process_nb = MaxWorkers
    /\ \A idx \in TraceIds : idx < stop0 => processed[idx] = 1
    /\ dirty_idx = stop0

----------------------------------------------------------------------------
(* C29.  Between batches every trace saved as a zero-filled bad trace      *)
(* has its index exactly once in bad_entries, in parallel and in           *)
(* sequential runs, and no result is left on the queue.                    *)

C29_BadEntriesComplete ==
    procPc \in {"while", "done"} =>
        /\ \A idx \in TraceIds :
              (saved[idx].kind = "ndarray" /\ saved[idx].data.zeros) =>
                  Cardinality({k \in DOMAIN bad_entries : bad_entries[k] = idx}) = 1
        /\ q = <<>>

----------------------------------------------------------------------------
(* C30.  Once the SIGINT handler has set stop to 0, at whatever point of   *)
(* the loop, a batch initialised afterwards has no worker, the workers of  *)
(* the batch in flight are joined, and process() ends with dirty_idx the   *)
(* first index that was not processed.                                     *)

C30_SigintQuitsProperly ==
    interrupted =>
        /\ stop = 0
        /\ batch_late => ps = <<>>
        /\ procPc = "done" =>
              /\ \A k \in DOMAIN ps : ps[k].st = "exited"
              /\ Contiguous(start, dirty_idx)
              /\ dirty_idx <= stop0

C30_Witness ==
    /\ interrupted /\ procPc = "done"
    /\ batch_late /\ process_nb > 0
    /\ start < dirty_idx /\ dirty_idx < stop0

====
